---- MODULE Spec2Model ----
(***************************************************************************)
(* Model of software/fastapi_receiver.py: the TableState store, the        *)
(* WebsocketManager, the SerialReceiver with its worker thread, and the    *)
(* request handlers that drive them.                                       *)
(*                                                                         *)
(* A Python dict is a sequence of <<key, value>> pairs in insertion order  *)
(* (dicts iterate in insertion order, and list.sort is stable, so the      *)
(* order is observable in the redDurations list).  Optional[float] is an   *)
(* integer with None as a sentinel; `if x` / `not x` is Truthy.  The clock *)
(* time.time() counts ticks of 1/TicksPerSecond s, so int(now - started)   *)
(* truncates.  A str or bytes value is a sequence of one-character         *)
(* strings.                                                                *)
(*                                                                         *)
(* Every TableState method runs its whole body under `with self._lock`,    *)
(* so each call is one atomic action; configure_range validates its own    *)
(* arguments before taking the lock, which reads no shared state.  The     *)
(* WebsocketManager methods hold its asyncio lock from start to end.  The  *)
(* SerialReceiver runs in three contexts: the worker thread (wpc), the     *)
(* thread of asyncio.to_thread that writes a command (spc), and the event  *)
(* loop inside set_port or stop (cpc); a section under _connection_lock is *)
(* one action, except the write of a command, which holds the lock from    *)
(* the test of the connection to the return of write().                    *)
(***************************************************************************)
EXTENDS Integers, Sequences, FiniteSets, TLC

\* ---- bounds of the model
MaxTable == 2
MaxTime == 3
MaxEntities == 2
TicksPerSecond == 2
MaxInbox == 2
MaxScheduled == 2

\* ---- program constants
DefaultLimit == 10

None == -1
COLOR_CODE == <<"green", "orange", "red">>
VALID_COLORS == {COLOR_CODE[i] : i \in 1..Len(COLOR_CODE)}

\* ids a caller may pass to update_table: any int (int(table_str), table_id: int)
TableIds == 0..MaxTable
\* arguments a caller may pass to configure_range
RangeArgs == 0..MaxTable

\* _start, _end, _colors, _red_started: the fields of table_state
\* now:  the value time.time() returns
\* call: the operation that ran last; ret: what it returned or raised
\* sent: the messages that operation handed to ws_manager.broadcast
VARIABLES _start, _end, _colors, _red_started, now, call, ret, sent

store == <<_start, _end, _colors, _red_started>>

\* ---- the rest of the process: ws_manager and serial_receiver

\* ws_manager._connections: the registered websockets, in list order
\* inbox:     per websocket, the messages send_json delivered to it
\* scheduled: the broadcast coroutines run_coroutine_threadsafe queued on
\*            the event loop and the loop has not run yet
\* wsstate:   per websocket, the position of its websocket_endpoint
VARIABLES _connections, inbox, scheduled, wsstate

\* history: the payloads of the single-table updates applied to the store
\* and not yet broadcast, in the order update_table made them; an update
\* whose request fails leaves the list, since it is never broadcast
VARIABLE applied

hubvars == <<_connections, inbox, scheduled, wsstate, applied>>

\* serial_receiver: _connection (whether self._connection refers to the
\* worker's Serial object), _active_port, _configured_port, _stop_event,
\* _connection_lock (the command holding it across steps, or "free")
\* handle:  the Serial object the worker created last: its port, is_open,
\*          whether a close() or a write() is running on it, and whether
\*          set_port has been called since it was opened
\* wpc, wport: the worker thread's position in _worker and its local `port`
\* spc, smessage: the position of the thread running a command, and its
\*          local `message`, the bytes it is about to write
\* supdate: the local `update` / `snapshot` of the request handler that
\*          issued the command; sbefore: the store that handler found
\* cpc:     the position of the event loop inside set_port or stop
\* written: the bytes the last command wrote on the serial port
\* line:    the bytes connection.readline() returned last
VARIABLES _connection, _active_port, _configured_port, _stop_event,
          _connection_lock, handle, wpc, wport, spc, smessage, supdate, sbefore, cpc,
          written, line

linkvars == <<_connection, _active_port, _configured_port, _stop_event,
              _connection_lock, handle, wpc, wport, spc, smessage, supdate, sbefore, cpc,
              written, line>>

\* the websockets that may connect to /ws
Websockets == {"ws1", "ws2", "ws3"}

NoPort == "None"
NoHandle == [port |-> NoPort, is_open |-> FALSE, closing |-> FALSE, writing |-> FALSE,
             stale |-> FALSE]

\* ---- the micro:bits on the radio (microbit_main.py): per device the id
\* and the role kept in flash, the color shown, the beta flag and the last
\* message id; rx is the strings the radio has received for a device and
\* not yet handed to on_received_string; transmitter is set once the device
\* has been fed a line on its serial port.  radio_sent is what the last step
\* passed to radio.send_string; originals and repeats count the lines sent
\* with role "T" or "S" and the lines each device sent as a repeater;
\* handled records the last call of handle_message.

VARIABLES deviceID, repeaterOn, currentColorIndex, beta, transmitter, last_msg_id, rx,
          radio_sent, originals, repeats, handled

fwvars == <<deviceID, repeaterOn, currentColorIndex, beta, transmitter, last_msg_id, rx,
            radio_sent, originals, repeats, handled>>

\* ---- the desktop application (teacherApplication.py): its globals
\* start_table, end_table, red_start_time, table_colors and ser, the calls
\* queued with root.after, and what it last wrote to the serial port

VARIABLE desktop

vars == <<_start, _end, _colors, _red_started, now, call, ret, sent, hubvars, linkvars,
         fwvars, desktop>>

\* ---- Python values

\* truthiness of an Optional[float]: None and 0.0 are falsy
Truthy(x) == x # None /\ x # 0

\* int(x) of a non-negative duration held in ticks
IntSeconds(ticks) == ticks \div TicksPerSecond

\* ---- dict
RECURSIVE DictIndex(_, _)
DictIndex(d, k) ==
    IF d = <<>> THEN 0
    ELSE IF d[Len(d)][1] = k THEN Len(d)
    ELSE DictIndex(SubSeq(d, 1, Len(d) - 1), k)

DictHas(d, k) == DictIndex(d, k) # 0

\* d.get(k): None when the key is absent
DictGet(d, k) == IF DictHas(d, k) THEN d[DictIndex(d, k)][2] ELSE None

\* d[k] = v: an existing key keeps its position, a new key goes last
DictSet(d, k, v) ==
    IF DictHas(d, k) THEN [d EXCEPT ![DictIndex(d, k)] = <<k, v>>]
    ELSE Append(d, <<k, v>>)

DictKeys(d) == [i \in 1..Len(d) |-> d[i][1]]
DictKeySet(d) == {d[i][1] : i \in 1..Len(d)}

\* variant: range(start, end), which leaves the last id out
RangeDictExclusive(start, end, v) == [i \in 1..(end - start) |-> <<start + i - 1, v>>]

\* {table_id: v for table_id in range(start, end + 1)}
RangeDict(start, end, v) == [i \in 1..(end - start + 1) |-> <<start + i - 1, v>>]

\* ---- sorting
\* sorted(d.items()): ascending by (key, value); keys are unique
RECURSIVE InsertByKey(_, _)
InsertByKey(s, x) ==
    IF s = <<>> THEN <<x>>
    ELSE IF x[1] < s[1][1] THEN <<x>> \o s
    ELSE <<s[1]>> \o InsertByKey(Tail(s), x)

RECURSIVE SortedItems(_)
SortedItems(d) ==
    IF d = <<>> THEN <<>>
    ELSE InsertByKey(SortedItems(SubSeq(d, 1, Len(d) - 1)), d[Len(d)])

\* list.sort(key=seconds, reverse=True): stable, equal keys keep their order
RECURSIVE InsertBySecondsDesc(_, _)
InsertBySecondsDesc(s, x) ==
    IF s = <<>> THEN <<x>>
    ELSE IF x.seconds > s[1].seconds THEN <<x>> \o s
    ELSE <<s[1]>> \o InsertBySecondsDesc(Tail(s), x)

RECURSIVE SortBySecondsDesc(_)
SortBySecondsDesc(l) ==
    IF l = <<>> THEN <<>>
    ELSE InsertBySecondsDesc(SortBySecondsDesc(SubSeq(l, 1, Len(l) - 1)), l[Len(l)])

\* l[:limit]
Take(l, limit) == SubSeq(l, 1, IF Len(l) < limit THEN Len(l) ELSE limit)

\* ---- TableState: the parts of a payload

\* _counts_locked
CountOf(d, c) == Cardinality({i \in 1..Len(d) : d[i][2] = c})
\* variant: the Counter is taken before the entry inserted last is there
CountsBeforeInsert(colors) ==
    LET before == SubSeq(colors, 1, Len(colors) - 1)
    IN [green |-> CountOf(before, "green"),
        orange |-> CountOf(before, "orange"),
        red |-> CountOf(before, "red")]

_counts_locked(colors) ==
    [green |-> CountOf(colors, "green"),
     orange |-> CountOf(colors, "orange"),
     red |-> CountOf(colors, "red")]

\* _range_locked
_range_locked(start, end) == [start |-> start, end |-> end]

\* the list comprehension of _red_durations_locked: one entry per truthy
\* start time, in the order self._red_started.items() yields them
RECURSIVE DurationEntries(_, _)
DurationEntries(red_started, t) ==
    IF red_started = <<>> THEN <<>>
    ELSE LET head == red_started[1]
             rest == DurationEntries(Tail(red_started), t)
         IN IF Truthy(head[2])
            THEN <<[table |-> head[1], seconds |-> IntSeconds(t - head[2])]>> \o rest
            ELSE rest

\* _red_durations_locked(limit)
_red_durations_locked(red_started, t, limit) ==
    Take(SortBySecondsDesc(DurationEntries(red_started, t)), limit)

\* variant: the items in insertion order, without sorted()
SnapshotTablesUnsorted(colors) ==
    [i \in 1..Len(colors) |-> [table |-> colors[i][1], color |-> colors[i][2]]]

\* the `tables` list of _snapshot_locked
SnapshotTables(colors) ==
    LET items == SortedItems(colors)
    IN [i \in 1..Len(items) |-> [table |-> items[i][1], color |-> items[i][2]]]

\* _snapshot_locked
_snapshot_locked(start, end, colors, red_started, t) ==
    [type |-> "snapshot",
     tables |-> SnapshotTables(colors),
     counts |-> _counts_locked(colors),
     range |-> _range_locked(start, end),
     redDurations |-> _red_durations_locked(red_started, t, DefaultLimit)]

\* ---- TableState: the mutations, as functions of the two dicts

\* variant: an id the store does not hold is ignored
ColorsKnownIdsOnly(colors, table, color) ==
    IF DictHas(colors, table) THEN DictSet(colors, table, color) ELSE colors

\* update_table, lines 876-879: adopt an unknown id, then store the color
ColorsAfterUpdate(colors, table, color) ==
    LET adopted == IF DictHas(colors, table) THEN colors
                   ELSE DictSet(colors, table, "green")
    IN DictSet(adopted, table, color)

\* variant: every write of red restarts the clock
RedStartedResetOnWrite(colors, red_started, table, color, t) ==
    DictSet(red_started, table, IF color = "red" THEN t ELSE None)

\* variant: only green clears the start time, orange keeps it
RedStartedClearedOnGreenOnly(colors, red_started, table, color, t) ==
    LET adopted == IF DictHas(colors, table) THEN red_started
                   ELSE DictSet(red_started, table, None)
    IN IF color = "red"
       THEN IF ~Truthy(DictGet(adopted, table))
            THEN DictSet(adopted, table, t)
            ELSE adopted
       ELSE IF color = "green" THEN DictSet(adopted, table, None)
       ELSE adopted

\* update_table, lines 876-878 and 880-884: the red-start bookkeeping
RedStartedAfterUpdate(colors, red_started, table, color, t) ==
    LET adopted == IF DictHas(colors, table) THEN red_started
                   ELSE DictSet(red_started, table, None)
    IN IF color = "red"
       THEN IF ~Truthy(DictGet(adopted, table))
            THEN DictSet(adopted, table, t)
            ELSE adopted
       ELSE DictSet(adopted, table, None)

\* reset_all: for table in self._colors: both dicts get the default
RECURSIVE SetAll(_, _, _)
SetAll(d, keys, v) ==
    IF keys = <<>> THEN d
    ELSE SetAll(DictSet(d, keys[1], v), Tail(keys), v)

\* variant: only the ids of the configured range are reset
ColorsResetInRangeOnly(colors) ==
    SetAll(colors, [i \in 1..(_end - _start + 1) |-> _start + i - 1], "green")

\* variant: the colors are reset, the start times are not
RedStartedKeptOnReset(colors, red_started) == red_started

ColorsAfterReset(colors) == SetAll(colors, DictKeys(colors), "green")
RedStartedAfterReset(colors, red_started) == SetAll(red_started, DictKeys(colors), None)

\* variant: the end of the range is not checked
InvalidRangeStartOnly(start, end) == start <= 0

\* variant: ids that stay in the range keep their start time
ConfiguredRedStartedStale(start, end) ==
    [i \in 1..(end - start + 1) |->
        <<start + i - 1, DictGet(_red_started, start + i - 1)>>]

\* configure_range, line 902
InvalidRange(start, end) == start <= 0 \/ end < start

\* configure_range, lines 907 and 908
ConfiguredColors(start, end) == RangeDict(start, end, "green")
ConfiguredRedStarted(start, end) == RangeDict(start, end, None)

\* TableRangeRequest: Field(ge=1) on both fields, then ensure_valid_range
RequestAccepted(start, end) == start >= 1 /\ end >= 1 /\ ~(end < start)

\* ---- WebsocketManager

ListHas(l, x) == \E i \in 1..Len(l) : l[i] = x

\* list.remove(x): the first occurrence goes; ValueError when there is none
RECURSIVE ListRemove(_, _)
ListRemove(l, x) ==
    IF ~ListHas(l, x) THEN <<"ValueError">>
    ELSE IF l[1] = x THEN Tail(l)
    ELSE <<l[1]>> \o ListRemove(Tail(l), x)

\* variant: remove without the membership test
DisconnectedUnchecked(conns, ws) == ListRemove(conns, ws)

\* disconnect, lines 958-959
Disconnected(conns, ws) == IF ListHas(conns, ws) THEN ListRemove(conns, ws) ELSE conns

\* variant: no try/except around send_json, the first failure ends the loop
RECURSIVE BroadcastSendsAbort(_, _, _, _)
BroadcastSendsAbort(conns, message, failing, box) ==
    IF conns = <<>> THEN [inbox |-> box, stale |-> <<>>]
    ELSE IF conns[1] \in failing THEN [inbox |-> box, stale |-> <<>>]
    ELSE BroadcastSendsAbort(Tail(conns), message, failing,
                             [box EXCEPT ![conns[1]] = Append(@, message)])

\* broadcast, lines 964-968: send_json to each websocket of
\* list(self._connections), in list order; the sends to `failing` raise
RECURSIVE BroadcastSends(_, _, _, _)
BroadcastSends(conns, message, failing, box) ==
    IF conns = <<>> THEN [inbox |-> box, stale |-> <<>>]
    ELSE LET ws == conns[1]
             sent_box == IF ws \in failing THEN box
                         ELSE [box EXCEPT ![ws] = Append(@, message)]
             rest == BroadcastSends(Tail(conns), message, failing, sent_box)
         IN [inbox |-> rest.inbox,
             stale |-> (IF ws \in failing THEN <<ws>> ELSE <<>>) \o rest.stale]

\* broadcast, lines 969-970
RECURSIVE RemoveStale(_, _)
RemoveStale(conns, stale) ==
    IF stale = <<>> THEN conns
    ELSE RemoveStale(ListRemove(conns, stale[1]), Tail(stale))

\* WebsocketManager.broadcast, all of it under self._lock
broadcast(message, failing) ==
    LET sends == BroadcastSends(_connections, message, failing, inbox)
    IN /\ \A ws \in Websockets : Len(inbox[ws]) < MaxInbox
       /\ inbox' = sends.inbox
       /\ _connections' = RemoveStale(_connections, sends.stale)

Registered == {_connections[i] : i \in 1..Len(_connections)}

\* ---- state machine

\* ---- microbit_main.py, lines 43-44, 120-148 and 219: a device boots with
\* the id and the role of its flash (a fresh flash: "0" and "0"), shows
\* green, and has handled no message; its first status line went out before
\* any other device listened; a flash written by an earlier setup holds the
\* id and the role chosen then

MaxDevices == 2

Devices == 1..MaxDevices

NoMessage == [msg |-> <<>>, returned |-> FALSE, executed |-> <<>>]

DeviceIds == 0..(MaxDevices - 1)

Boot(ids, roles) ==
    /\ deviceID = ids
    /\ repeaterOn = roles
    /\ currentColorIndex = [d \in Devices |-> 0]
    /\ beta = [d \in Devices |-> FALSE]
    /\ transmitter = [d \in Devices |-> FALSE]
    /\ last_msg_id = [d \in Devices |-> -1]
    /\ rx = [d \in Devices |-> <<>>]
    /\ radio_sent = <<>>
    /\ originals = 0
    /\ repeats = [d \in Devices |-> 0]
    /\ handled = NoMessage

InitDevices == Boot([d \in Devices |-> 0], [d \in Devices |-> FALSE])

\* teacherApplication.py, lines 199-204 and 238-239: the range of the two
\* entries (1 and 16 in the source, 1 and MaxTable here) with end_table one
\* past the last table, every table green, no serial port
InitDesktop ==
    desktop = [start_table |-> 1,
               end_table |-> MaxTable + 1,
               red_start_time |-> [i \in 1..MaxTable |-> None],
               table_colors |-> [i \in 1..MaxTable |-> "green"],
               ser |-> "None",
               after |-> <<>>,
               wrote |-> <<>>]

\* module load: TableState(start_table, end_table), where parse_table_range
\* only returns pairs with 1 <= start <= end; WebsocketManager();
\* SerialReceiver(table_state, ws_manager) with SERIAL_PORT unset
InitCore ==
    /\ _start \in 1..MaxTable
    /\ _end \in _start..MaxTable
    /\ _colors = RangeDict(_start, _end, "green")
    /\ _red_started = RangeDict(_start, _end, None)
    /\ now = 1
    /\ call = "init"
    /\ ret = [type |-> "none"]
    /\ sent = <<>>
    \* WebsocketManager.__init__; nothing is queued on the loop
    /\ _connections = <<>>
    /\ inbox = [ws \in Websockets |-> <<>>]
    /\ scheduled = <<>>
    /\ wsstate = [ws \in Websockets |-> "new"]
    /\ applied = <<>>
    \* SerialReceiver.__init__; the thread is not started
    /\ _connection = FALSE
    /\ _active_port = NoPort
    /\ _configured_port = NoPort
    /\ _stop_event = FALSE
    /\ _connection_lock = "free"
    /\ handle = NoHandle
    /\ wpc = "unstarted"
    /\ wport = NoPort
    /\ spc = "idle"
    /\ smessage = <<>>
    /\ supdate = [type |-> "None"]
    /\ sbefore = <<>>
    /\ cpc = "idle"
    /\ written = <<>>
    /\ line = <<>>
    /\ InitDesktop

Init == InitCore /\ InitDevices

\* time.time() advances
Tick ==
    /\ now < MaxTime
    /\ now' = now + 1
    /\ UNCHANGED <<fwvars, desktop, store, call, ret, sent, hubvars, linkvars>>

\* TableState.snapshot
Snapshot ==
    /\ call' = "snapshot"
    /\ ret' = _snapshot_locked(_start, _end, _colors, _red_started, now)
    /\ sent' = <<>>
    /\ UNCHANGED <<fwvars, desktop, store, now, hubvars, linkvars>>

\* TableState.update_table
UpdateTable(table, color) ==
    /\ call' = "update_table"
    /\ DictHas(_colors, table) \/ Len(_colors) < MaxEntities
    /\ _colors' = ColorsAfterUpdate(_colors, table, color)
    /\ _red_started' = RedStartedAfterUpdate(_colors, _red_started, table, color, now)
    /\ ret' = [type |-> "table_update",
               table |-> [table |-> table, color |-> color],
               counts |-> _counts_locked(_colors'),
               range |-> _range_locked(_start, _end),
               redDurations |-> _red_durations_locked(_red_started', now, DefaultLimit)]
    /\ sent' = <<>>
    /\ UNCHANGED <<fwvars, desktop, _start, _end, now, hubvars, linkvars>>

\* TableState.reset_all
ResetAll ==
    /\ call' = "reset_all"
    /\ _colors' = ColorsAfterReset(_colors)
    /\ _red_started' = RedStartedAfterReset(_colors, _red_started)
    /\ ret' = _snapshot_locked(_start, _end, _colors', _red_started', now)
    /\ sent' = <<>>
    /\ UNCHANGED <<fwvars, desktop, _start, _end, now, hubvars, linkvars>>

\* the body of TableState.configure_range: raise before the lock, or replace
configure_range(start, end) ==
    IF InvalidRange(start, end)
    THEN /\ ret' = [type |-> "ValueError"]
         /\ UNCHANGED store
    ELSE /\ _start' = start
         /\ _end' = end
         /\ _colors' = ConfiguredColors(start, end)
         /\ _red_started' = ConfiguredRedStarted(start, end)
         /\ ret' = _snapshot_locked(start, end, _colors', _red_started', now)

\* TableState.configure_range, called directly
ConfigureRange(start, end) ==
    /\ call' = "configure_range"
    /\ configure_range(start, end)
    /\ sent' = <<>>
    /\ UNCHANGED <<fwvars, desktop, now, hubvars, linkvars>>

\* api_table_range: POST /api/table-range.  A body the request model
\* refuses never reaches the handler (422); a ValueError of the store
\* becomes a 400 before the broadcast; otherwise the snapshot is broadcast
ApiTableRange(start, end) ==
    /\ call' = "api_table_range"
    /\ IF ~RequestAccepted(start, end)
       THEN /\ ret' = [type |-> "RequestValidationError"]
            /\ sent' = <<>>
            /\ UNCHANGED <<store, _connections, inbox>>
       ELSE IF InvalidRange(start, end)
       THEN /\ ret' = [type |-> "HTTPException"]
            /\ sent' = <<>>
            /\ UNCHANGED <<store, _connections, inbox>>
       ELSE /\ configure_range(start, end)
            /\ sent' = <<ret'>>
            /\ \E failing \in SUBSET Registered : broadcast(ret', failing)
    /\ UNCHANGED <<fwvars, desktop, now, scheduled, applied, wsstate, linkvars>>

\* websocket_endpoint, line 1236: ws_manager.connect
WsConnect(ws) ==
    /\ wsstate[ws] = "new"
    /\ _connections' = Append(_connections, ws)
    /\ wsstate' = [wsstate EXCEPT ![ws] = "registered"]
    /\ call' = "connect"
    /\ ret' = [type |-> "None"]
    /\ sent' = <<>>
    /\ UNCHANGED <<fwvars, desktop, store, now, inbox, scheduled, applied, linkvars>>

\* variant: the endpoint sends the snapshot first and connects afterwards,
\* so the snapshot goes to a websocket that is not registered yet
WsSnapshotUnregistered(ws) ==
    /\ wsstate[ws] \in {"new", "registered"}
    /\ Len(inbox[ws]) < MaxInbox
    /\ inbox' = [inbox EXCEPT ![ws] =
                    Append(@, _snapshot_locked(_start, _end, _colors, _red_started, now))]
    /\ wsstate' = [wsstate EXCEPT ![ws] = "receiving"]
    /\ call' = "snapshot"
    /\ ret' = _snapshot_locked(_start, _end, _colors, _red_started, now)
    /\ sent' = <<>>
    /\ UNCHANGED <<fwvars, desktop, store, now, _connections, scheduled, applied, linkvars>>

\* websocket_endpoint, line 1238: the first message is table_state.snapshot()
WsSnapshot(ws) ==
    /\ wsstate[ws] = "registered"
    /\ Len(inbox[ws]) < MaxInbox
    /\ inbox' = [inbox EXCEPT ![ws] =
                    Append(@, _snapshot_locked(_start, _end, _colors, _red_started, now))]
    /\ wsstate' = [wsstate EXCEPT ![ws] = "receiving"]
    /\ call' = "snapshot"
    /\ ret' = _snapshot_locked(_start, _end, _colors, _red_started, now)
    /\ sent' = <<>>
    /\ UNCHANGED <<fwvars, desktop, store, now, _connections, scheduled, applied, linkvars>>

\* websocket_endpoint, lines 1238-1243: send_json or receive_text raises
WsFail(ws) ==
    /\ wsstate[ws] \in {"registered", "receiving"}
    /\ wsstate' = [wsstate EXCEPT ![ws] = "failed"]
    /\ UNCHANGED <<fwvars, desktop, store, now, call, ret, sent, _connections, inbox, scheduled, applied, linkvars>>

\* websocket_endpoint, lines 1242 and 1244: ws_manager.disconnect
WsDisconnect(ws) ==
    /\ wsstate[ws] = "failed"
    /\ _connections' = Disconnected(_connections, ws)
    /\ wsstate' = [wsstate EXCEPT ![ws] = "closed"]
    /\ call' = "disconnect"
    /\ ret' = [type |-> IF _connections' = <<"ValueError">> THEN "ValueError" ELSE "None"]
    /\ sent' = <<>>
    /\ UNCHANGED <<fwvars, desktop, store, now, inbox, scheduled, applied, linkvars>>

Next ==
    \/ Tick
    \/ Snapshot
    \/ \E table \in TableIds, color \in VALID_COLORS : UpdateTable(table, color)
    \/ ResetAll
    \/ \E start \in RangeArgs, end \in RangeArgs : ConfigureRange(start, end)
    \/ \E start \in RangeArgs, end \in RangeArgs : ApiTableRange(start, end)

Spec == Init /\ [][Next]_vars

\* ======================================================================
\* Properties
\* ======================================================================

IsRed(table) == DictHas(_colors, table) /\ DictGet(_colors, table) = "red"
InRange(table) == _start <= table /\ table <= _end
Payloads == {"snapshot", "table_update"}

\* C1 (invariant I2): in every reachable state both dicts hold the same
\* ids, and an id's red-start time is set exactly when its color is red.
C1_RedSinceIffRed ==
    /\ DictKeys(_red_started) = DictKeys(_colors)
    /\ \A i \in 1..Len(_colors) :
          (DictGet(_red_started, _colors[i][1]) # None) <=> (_colors[i][2] = "red")

\* an entity that turned red earlier and one that is not red, after an update
C1_Witness ==
    /\ call = "update_table"
    /\ \E i \in 1..Len(_colors) :
          _colors[i][2] = "red" /\ DictGet(_red_started, _colors[i][1]) < now
    /\ \E i \in 1..Len(_colors) : _colors[i][2] # "red"

\* C2: an update to red of an entity that is not red sets its red-start
\* time to the time of the update; an update to red of a red entity leaves
\* the red-start time as it is; an update to green or orange clears it.
C2_RedSinceTransitions ==
    [][\A table \in TableIds, color \in VALID_COLORS :
          UpdateTable(table, color) =>
             /\ (color = "red" /\ ~IsRed(table))
                   => DictGet(_red_started', table) = now
             /\ (color = "red" /\ IsRed(table))
                   => DictGet(_red_started', table) = DictGet(_red_started, table)
             /\ color # "red" => DictGet(_red_started', table) = None]_vars

\* an update to red answered with a duration of a second or more for that
\* entity: it was red already, and kept its first start time
C2_Witness ==
    /\ call = "update_table"
    /\ ret.table.color = "red"
    /\ \E i \in 1..Len(ret.redDurations) :
          /\ ret.redDurations[i].table = ret.table.table
          /\ ret.redDurations[i].seconds >= 1

\* C3, as claimed: the ids the store holds are exactly start..end.
C3_EntitySetIsRange == DictKeySet(_colors) = _start.._end

\* C3, amended: the store holds every id of start..end, each id once; the
\* ids are exactly start..end after construction and after a successful
\* configure_range, until an update adopts an id outside the range.
C3_EntitySetCoversRange ==
    /\ (_start.._end) \subseteq DictKeySet(_colors)
    /\ Cardinality(DictKeySet(_colors)) = Len(_colors)
    /\ (call = "init" \/ (call \in {"configure_range", "api_table_range"}
                            /\ ret.type = "snapshot"))
          => DictKeySet(_colors) = _start.._end

\* the store holds an id outside its range
C3_Witness ==
    /\ call = "update_table"
    /\ ~InRange(ret.table.table)
    /\ DictHas(_colors, ret.table.table)

\* C4: update_table of an id the store does not hold creates the entity
\* with the requested color, its red-start time set iff the color is red,
\* and a snapshot of the resulting store lists it with that color.
C4_UnknownIdAdopted ==
    [][\A table \in TableIds, color \in VALID_COLORS :
          (UpdateTable(table, color) /\ ~DictHas(_colors, table)) =>
             /\ ret'.type = "table_update"
             /\ DictHas(_colors', table)
             /\ DictGet(_colors', table) = color
             /\ DictHas(_red_started', table)
             /\ (DictGet(_red_started', table) # None) <=> (color = "red")
             /\ \E i \in 1..Len(SnapshotTables(_colors')) :
                   SnapshotTables(_colors')[i] = [table |-> table, color |-> color]]_vars

\* an id outside the range, adopted as red
C4_Witness ==
    /\ call = "update_table"
    /\ ~InRange(ret.table.table)
    /\ ret.table.color = "red"
    /\ DictGet(_red_started, ret.table.table) = now

\* C5: configure_range(start, end) with 1 <= start <= end leaves exactly
\* end-start+1 entities, ids start..end, all green, no red-start time set,
\* and the range (start, end), whatever the store held before.
C5_ReconfigureRange ==
    [][\A start \in RangeArgs, end \in RangeArgs :
          (ConfigureRange(start, end) /\ start >= 1 /\ end >= start) =>
             /\ Len(_colors') = end - start + 1
             /\ DictKeys(_colors') = [i \in 1..(end - start + 1) |-> start + i - 1]
             /\ \A i \in 1..Len(_colors') : _colors'[i][2] = "green"
             /\ DictKeys(_red_started') = DictKeys(_colors')
             /\ \A i \in 1..Len(_red_started') : _red_started'[i][2] = None
             /\ _start' = start /\ _end' = end
             /\ ret'.type = "snapshot"
             /\ ret'.range = [start |-> start, end |-> end]
             /\ Len(ret'.tables) = end - start + 1
             /\ ret'.redDurations = <<>>]_vars

\* a reconfiguration to a range of more than one id, after time has passed
C5_Witness ==
    /\ call = "configure_range"
    /\ ret.type = "snapshot"
    /\ _end > _start
    /\ now > 1

\* C6: configure_range(start, end) with start <= 0 or end < start raises
\* and leaves range, ids, colors and red-start times as they were; the
\* request handler answers such a request with an error, changes nothing
\* and broadcasts nothing.
C6_InvalidRangeRejected ==
    [][\A start \in RangeArgs, end \in RangeArgs :
          (start <= 0 \/ end < start) =>
             /\ ConfigureRange(start, end)
                   => (ret'.type = "ValueError" /\ UNCHANGED store)
             /\ ApiTableRange(start, end)
                   => /\ ret'.type \in {"RequestValidationError", "HTTPException"}
                      /\ UNCHANGED store
                      /\ sent' = <<>>]_vars

\* a refused range request on a store that holds a red entity and an
\* adopted id
C6_Witness ==
    /\ call = "api_table_range"
    /\ ret.type \notin Payloads
    /\ \E i \in 1..Len(_colors) : _colors[i][2] = "red"
    /\ Len(_colors) > _end - _start + 1

\* C7: reset_all turns every entity the store holds green, clears every
\* red-start time, and keeps the ids (adopted ones included) and the range.
C7_ResetAll ==
    [][ResetAll =>
          /\ \A i \in 1..Len(_colors') : _colors'[i][2] = "green"
          /\ \A i \in 1..Len(_red_started') : _red_started'[i][2] = None
          /\ DictKeys(_colors') = DictKeys(_colors)
          /\ DictKeys(_red_started') = DictKeys(_red_started)
          /\ _start' = _start /\ _end' = _end]_vars

\* reset_all on a store that holds an adopted id
C7_Witness ==
    /\ call = "reset_all"
    /\ Len(_colors) > _end - _start + 1

\* C8: the redDurations list of every payload is sorted by seconds
\* descending, equal seconds by ascending id, and holds at most
\* DefaultLimit entries.
SortedDescThenId(l) ==
    \A i \in 1..Len(l) : \A j \in (i + 1)..Len(l) :
        \/ l[i].seconds > l[j].seconds
        \/ (l[i].seconds = l[j].seconds /\ l[i].table < l[j].table)

C8_TopRedSorted ==
    ret.type \in Payloads =>
        (SortedDescThenId(ret.redDurations) /\ Len(ret.redDurations) <= DefaultLimit)

\* C9: after update_table(table, color), the same call again, at that time
\* or later, leaves colors, ids and red-start times as they are.
C9_UpdateIdempotent ==
    call = "update_table" =>
        /\ ColorsAfterUpdate(_colors, ret.table.table, ret.table.color) = _colors
        /\ RedStartedAfterUpdate(_colors, _red_started, ret.table.table,
                                 ret.table.color, now) = _red_started

\* the entity last updated is red since an earlier time than now
C9_Witness ==
    /\ call = "update_table"
    /\ ret.table.color = "red"
    /\ DictGet(_red_started, ret.table.table) < now

\* C10: snapshot leaves the store as it is, and its tables list holds each
\* entity of the store once, with its color, in ascending id order.
C10_SnapshotPure ==
    [][Snapshot =>
          /\ UNCHANGED store
          /\ Len(ret'.tables) = Len(_colors)
          /\ \A i \in 1..Len(_colors) : \E j \in 1..Len(ret'.tables) :
                ret'.tables[j] = [table |-> _colors[i][1], color |-> _colors[i][2]]
          /\ \A i \in 1..Len(ret'.tables) : \A j \in (i + 1)..Len(ret'.tables) :
                ret'.tables[i].table < ret'.tables[j].table]_vars

\* a snapshot of a store whose last-inserted id is not its largest
C10_Witness ==
    /\ call = "snapshot"
    /\ Len(_colors) > 1
    /\ _colors[Len(_colors)][1] < _colors[1][1]

\* ======================================================================
\* The wire format.  A str or bytes value is a sequence of one-character
\* strings, so that formatting, splitting and int() are computed.
\* ======================================================================

Digits == <<"0", "1", "2", "3", "4", "5", "6", "7", "8", "9">>
Whitespace == {" ", "\t", "\r", "\n"}
\* a byte that is not valid UTF-8
BadByte == "?"

\* bytes.decode("utf-8", errors="ignore"): invalid bytes are dropped
RECURSIVE Decode(_)
Decode(bytes) ==
    IF bytes = <<>> THEN <<>>
    ELSE IF bytes[1] = BadByte THEN Decode(Tail(bytes))
    ELSE <<bytes[1]>> \o Decode(Tail(bytes))

\* str.strip()
RECURSIVE LStrip(_)
LStrip(str) ==
    IF str # <<>> /\ str[1] \in Whitespace THEN LStrip(Tail(str)) ELSE str

RECURSIVE RStrip(_)
RStrip(str) ==
    IF str # <<>> /\ str[Len(str)] \in Whitespace
    THEN RStrip(SubSeq(str, 1, Len(str) - 1)) ELSE str

Strip(str) == RStrip(LStrip(str))

\* str.split(","): the fields between commas, at least one
RECURSIVE Split(_)
Split(str) ==
    IF \A i \in 1..Len(str) : str[i] # ","
    THEN <<str>>
    ELSE LET i == CHOOSE i \in 1..Len(str) :
                     str[i] = "," /\ \A j \in 1..(i - 1) : str[j] # ","
         IN <<SubSeq(str, 1, i - 1)>> \o Split(SubSeq(str, i + 1, Len(str)))

\* f"{n}" of an int
DigitOf(d) == Digits[d + 1]
RECURSIVE NatStr(_)
NatStr(n) == IF n < 10 THEN <<DigitOf(n)>> ELSE NatStr(n \div 10) \o <<DigitOf(n % 10)>>
IntStr(n) == IF n < 0 THEN <<"-">> \o NatStr(0 - n) ELSE NatStr(n)

\* int(str): surrounding whitespace and one sign are accepted, then one or
\* more decimal digits, which single underscores may group; anything else
\* is a ValueError
IsDigit(c) == \E d \in 0..9 : DigitOf(d) = c
DigitValue(c) == CHOOSE d \in 0..9 : DigitOf(d) = c
RECURSIVE NatValue(_)
NatValue(str) ==
    IF Len(str) = 1 THEN DigitValue(str[1])
    ELSE 10 * NatValue(SubSeq(str, 1, Len(str) - 1)) + DigitValue(str[Len(str)])

\* the digits of a literal: single underscores between digits are dropped
RECURSIVE Ungrouped(_)
Ungrouped(str) ==
    IF str = <<>> THEN <<>>
    ELSE IF str[1] = "_" /\ Len(str) > 1 /\ IsDigit(str[2]) THEN Ungrouped(Tail(str))
    ELSE <<str[1]>> \o Ungrouped(Tail(str))

PyInt(str) ==
    LET body == Strip(str)
        signed == body # <<>> /\ body[1] \in {"-", "+"}
        literal == IF signed THEN Tail(body) ELSE body
        digits == IF literal # <<>> /\ IsDigit(literal[1]) THEN Ungrouped(literal)
                  ELSE literal
    IN IF digits = <<>> \/ \E i \in 1..Len(digits) : ~IsDigit(digits[i])
       THEN [ok |-> FALSE, value |-> 0]
       ELSE [ok |-> TRUE,
             value |-> IF signed /\ body[1] = "-" THEN 0 - NatValue(digits)
                       ELSE NatValue(digits)]

\* COLOR_CODE.get(color_index): None for an unknown index
ColorOfIndex(color_index) ==
    IF color_index \in 0..(Len(COLOR_CODE) - 1) THEN COLOR_CODE[color_index + 1] ELSE "None"

\* COLOR_NAME_TO_ID[color]
COLOR_NAME_TO_ID(color) == CHOOSE i \in 0..(Len(COLOR_CODE) - 1) : COLOR_CODE[i + 1] = color

\* SerialReceiver._parse_message: [ok |-> FALSE] stands for None
Rejected == [ok |-> FALSE, table |-> 0, color |-> "None"]

\* variant: no test of the role, an "RT" line is parsed like any other
ParsedAnyRole(raw) ==
    LET parts == Split(raw)
    IN IF Len(parts) # 3 THEN Rejected
       ELSE LET table == PyInt(parts[2])
                color_index == PyInt(parts[3])
            IN IF ~table.ok \/ ~color_index.ok THEN Rejected
               ELSE IF ColorOfIndex(color_index.value) = "None" THEN Rejected
               ELSE [ok |-> TRUE, table |-> table.value,
                     color |-> ColorOfIndex(color_index.value)]

\* variant: only the roles "T" and "S" are parsed
ParsedKnownRoles(raw) ==
    LET parts == Split(raw)
    IN IF Len(parts) # 3 THEN Rejected
       ELSE LET role == parts[1]
                table == PyInt(parts[2])
                color_index == PyInt(parts[3])
            IN IF role \notin {<<"T">>, <<"S">>} THEN Rejected
               ELSE IF ~table.ok \/ ~color_index.ok THEN Rejected
               ELSE IF ColorOfIndex(color_index.value) = "None" THEN Rejected
               ELSE [ok |-> TRUE, table |-> table.value,
                     color |-> ColorOfIndex(color_index.value)]

\* variant: COLOR_CODE.get(color_index, "green"), an unknown index is green
ParsedDefaultGreen(raw) ==
    LET parts == Split(raw)
    IN IF Len(parts) # 3 THEN Rejected
       ELSE LET role == parts[1]
                table == PyInt(parts[2])
                color_index == PyInt(parts[3])
            IN IF role = <<"R", "T">> THEN Rejected
               ELSE IF ~table.ok \/ ~color_index.ok THEN Rejected
               ELSE [ok |-> TRUE, table |-> table.value,
                     color |-> IF ColorOfIndex(color_index.value) = "None" THEN "green"
                               ELSE ColorOfIndex(color_index.value)]

_parse_message(raw) ==
    LET parts == Split(raw)
    IN IF Len(parts) # 3 THEN Rejected
       ELSE LET role == parts[1]
                table == PyInt(parts[2])
                color_index == PyInt(parts[3])
            IN IF role = <<"R", "T">> THEN Rejected
               ELSE IF ~table.ok \/ ~color_index.ok THEN Rejected
               ELSE IF ColorOfIndex(color_index.value) = "None" THEN Rejected
               ELSE [ok |-> TRUE, table |-> table.value,
                     color |-> ColorOfIndex(color_index.value)]

\* variant: the color is numbered from 1
TeacherMessageFromOne(table, color) ==
    <<"T", ",">> \o IntStr(table) \o <<",">> \o IntStr(COLOR_NAME_TO_ID(color) + 1) \o <<"\n">>

\* send_teacher_command, lines 1028-1029: f"T,{table},{color_id}\n"
TeacherMessage(table, color) ==
    <<"T", ",">> \o IntStr(table) \o <<",">> \o IntStr(COLOR_NAME_TO_ID(color)) \o <<"\n">>

\* SerialReceiver.reset_all, line 1037: "T,-1,0\n"
ResetMessage == <<"T", ",", "-", "1", ",", "0", "\n">>

\* ======================================================================
\* serial_receiver: the worker thread
\* ======================================================================

\* the devices serial.Serial may be asked to open
Ports == {"COM3", "COM4"}

receiver == <<_connection, _active_port, _configured_port, _stop_event,
              _connection_lock, handle>>

\* _resolve_port: the configured port, else the device comports() shows
_resolve_port(detected) ==
    IF _configured_port # NoPort THEN _configured_port ELSE detected

\* the body of TableState.update_table, called by the read loop and by
\* api_update_table
update_table(table, color) ==
    /\ DictHas(_colors, table) \/ Len(_colors) < MaxEntities
    /\ _colors' = ColorsAfterUpdate(_colors, table, color)
    /\ _red_started' = RedStartedAfterUpdate(_colors, _red_started, table, color, now)
    /\ ret' = [type |-> "table_update",
               table |-> [table |-> table, color |-> color],
               counts |-> _counts_locked(_colors'),
               range |-> _range_locked(_start, _end),
               redDurations |-> _red_durations_locked(_red_started', now, DefaultLimit)]
    /\ UNCHANGED <<fwvars, desktop, _start, _end>>

\* lifespan, lines 1167-1168: bind_loop, then start() runs the thread
Start ==
    /\ wpc = "unstarted"
    /\ cpc = "idle"
    /\ _stop_event' = FALSE
    /\ wpc' = "loop"
    /\ UNCHANGED <<fwvars, desktop, store, now, call, ret, sent, hubvars, _connection, _active_port,
                   _configured_port, _connection_lock, handle, wport, spc, smessage,
                   supdate, sbefore, cpc, written, line>>

\* variant: `while True`, the stop event is not tested
WorkerResolveForever(detected) ==
    /\ wpc = "loop"
    /\ wport' = _resolve_port(detected)
    /\ wpc' = IF wport' = NoPort THEN "sleep" ELSE "connect"
    /\ UNCHANGED <<fwvars, desktop, store, now, call, ret, sent, hubvars, receiver, spc, smessage,
                   supdate, sbefore, cpc, written, line>>

\* _worker, lines 1045-1050: leave when stopped, else resolve the port;
\* without one, sleep
WorkerResolve(detected) ==
    /\ wpc = "loop"
    /\ IF _stop_event
       THEN /\ wpc' = "done"
            /\ wport' = wport
       ELSE /\ wport' = _resolve_port(detected)
            /\ wpc' = IF wport' = NoPort THEN "sleep" ELSE "connect"
    /\ UNCHANGED <<fwvars, desktop, store, now, call, ret, sent, hubvars, receiver, spc, smessage,
                   supdate, sbefore, cpc, written, line>>

\* variant: no `except serial.SerialException`, a failed open ends the thread
WorkerOpenUncaught(opens) ==
    /\ wpc = "connect"
    /\ IF opens
       THEN /\ handle' = [port |-> wport, is_open |-> TRUE, closing |-> FALSE,
                          writing |-> FALSE, stale |-> FALSE]
            /\ wpc' = "opened"
       ELSE /\ handle' = handle
            /\ wpc' = "done"
    /\ UNCHANGED <<fwvars, desktop, store, now, call, ret, sent, hubvars, _connection, _active_port,
                   _configured_port, _stop_event, _connection_lock, wport, spc,
                   smessage, supdate, sbefore, cpc, written, line>>

\* _worker, line 1052: serial.Serial(port, ...) opens the device or raises
\* SerialException, which line 1058 catches
WorkerOpen(opens) ==
    /\ wpc = "connect"
    /\ IF opens
       THEN /\ handle' = [port |-> wport, is_open |-> TRUE, closing |-> FALSE,
                          writing |-> FALSE, stale |-> FALSE]
            /\ wpc' = "opened"
       ELSE /\ handle' = handle
            /\ wpc' = "finally"
    /\ UNCHANGED <<fwvars, desktop, store, now, call, ret, sent, hubvars, _connection, _active_port,
                   _configured_port, _stop_event, _connection_lock, wport, spc,
                   smessage, supdate, sbefore, cpc, written, line>>

\* _worker, lines 1054-1056: record the connection, under _connection_lock
WorkerPublish ==
    /\ wpc = "opened"
    /\ _connection_lock = "free"
    /\ _connection' = TRUE
    /\ _active_port' = wport
    /\ wpc' = "read"
    /\ UNCHANGED <<fwvars, desktop, store, now, call, ret, sent, hubvars, _configured_port, _stop_event,
                   _connection_lock, handle, wport, spc, smessage, supdate, sbefore, cpc, written, line>>

\* the history without its oldest entry equal to `update`
RECURSIVE Without(_, _)
Without(history, update) ==
    IF history = <<>> THEN <<>>
    ELSE IF Head(history) = update THEN Tail(history)
    ELSE <<Head(history)>> \o Without(Tail(history), update)

\* run_coroutine_threadsafe(self._ws_manager.broadcast(update), self._loop)
ScheduledTwice(queue, update) == Append(Append(queue, update), update)

Scheduled(queue, update) == Append(queue, update)

\* _read_loop, lines 1069 and 1075: the payload of the bytes readline returned
Parsed(bytes) == _parse_message(Strip(Decode(bytes)))

\* _read_loop, one iteration in which readline returns `bytes` (empty on a
\* timeout): lines 1067-1081.  A line that is dropped leaves no trace but
\* the debug log
ReadLine(bytes) ==
    /\ wpc = "read"
    /\ ~_stop_event
    /\ handle.is_open
    /\ Len(scheduled) < MaxScheduled
    /\ line' = bytes
    /\ LET raw == Strip(Decode(bytes))
           payload == Parsed(bytes)
       IN IF raw = <<>> \/ ~payload.ok
          THEN UNCHANGED <<store, call, ret, sent, scheduled, applied>>
          ELSE /\ call' = "_read_loop"
               /\ update_table(payload.table, payload.color)
               /\ sent' = <<>>
               /\ scheduled' = Scheduled(scheduled, ret')
               /\ applied' = Append(applied, ret')
    /\ UNCHANGED <<fwvars, desktop, now, _connections, inbox, wsstate, receiver, wpc, wport, spc,
                   smessage, supdate, sbefore, cpc, written>>

\* _read_loop, line 1067: the stop event ends the loop
ReadStopped ==
    /\ wpc = "read"
    /\ _stop_event
    /\ wpc' = "exit"
    /\ UNCHANGED <<fwvars, desktop, store, now, call, ret, sent, hubvars, receiver, wport, spc,
                   smessage, supdate, sbefore, cpc, written, line>>

\* _read_loop, lines 1070-1072: readline raises (the device is gone, or the
\* port was closed under the worker) and the loop breaks
ReadError ==
    /\ wpc = "read"
    /\ ~_stop_event
    /\ wpc' = "exit"
    /\ UNCHANGED <<fwvars, desktop, store, now, call, ret, sent, hubvars, receiver, wport, spc,
                   smessage, supdate, sbefore, cpc, written, line>>

\* _worker, line 1052: leaving the `with` block calls connection.close(),
\* which is not under _connection_lock; close() of a closed port does nothing
WorkerCloseBegin ==
    /\ wpc = "exit"
    /\ IF handle.is_open
       THEN /\ handle' = [handle EXCEPT !.closing = TRUE]
            /\ wpc' = "closing"
       ELSE /\ handle' = handle
            /\ wpc' = "finally"
    /\ UNCHANGED <<fwvars, desktop, store, now, call, ret, sent, hubvars, _connection, _active_port,
                   _configured_port, _stop_event, _connection_lock, wport, spc,
                   smessage, supdate, sbefore, cpc, written, line>>

WorkerCloseEnd ==
    /\ wpc = "closing"
    /\ handle' = [handle EXCEPT !.closing = FALSE, !.is_open = FALSE]
    /\ wpc' = "finally"
    /\ UNCHANGED <<fwvars, desktop, store, now, call, ret, sent, hubvars, _connection, _active_port,
                   _configured_port, _stop_event, _connection_lock, wport, spc,
                   smessage, supdate, sbefore, cpc, written, line>>

\* variant: the finally block clears _connection and leaves _active_port
WorkerFinallyKeepsPort ==
    /\ wpc = "finally"
    /\ _connection_lock = "free"
    /\ _connection' = FALSE
    /\ wpc' = "sleep"
    /\ UNCHANGED <<fwvars, desktop, store, now, call, ret, sent, hubvars, _active_port, _configured_port,
                   _stop_event, _connection_lock, handle, wport, spc, smessage, supdate,
                   sbefore, cpc, written, line>>

\* _worker, lines 1060-1063: forget the connection, under _connection_lock
WorkerFinally ==
    /\ wpc = "finally"
    /\ _connection_lock = "free"
    /\ _connection' = FALSE
    /\ _active_port' = NoPort
    /\ wpc' = "sleep"
    /\ UNCHANGED <<fwvars, desktop, store, now, call, ret, sent, hubvars, _configured_port, _stop_event,
                   _connection_lock, handle, wport, spc, smessage, supdate, sbefore, cpc, written, line>>

\* _worker, lines 1049 and 1064: time.sleep(RETRY_SECONDS), then the loop test
WorkerSleep ==
    /\ wpc = "sleep"
    /\ wpc' = "loop"
    /\ UNCHANGED <<fwvars, desktop, store, now, call, ret, sent, hubvars, receiver, wport, spc,
                   smessage, supdate, sbefore, cpc, written, line>>

\* the event loop runs the oldest coroutine run_coroutine_threadsafe queued:
\* ws_manager.broadcast(update)
RunScheduled ==
    /\ scheduled # <<>>
    /\ cpc = "idle"
    /\ call' = "broadcast"
    /\ ret' = [type |-> "None"]
    /\ sent' = <<Head(scheduled)>>
    /\ scheduled' = Tail(scheduled)
    /\ applied' = Without(applied, Head(scheduled))
    /\ \E failing \in SUBSET Registered : broadcast(Head(scheduled), failing)
    /\ UNCHANGED <<fwvars, desktop, store, now, wsstate, linkvars>>

\* ======================================================================
\* serial_receiver: commands, set_port, stop, serial_status
\* ======================================================================

\* api_update_table, line 1190, and send_teacher_command, lines 1028-1029:
\* the store is updated first, then the thread of asyncio.to_thread starts
ApiUpdateTable(table, color) ==
    /\ spc = "idle"
    /\ cpc = "idle"
    /\ call' = "api_update_table"
    /\ sbefore' = store
    /\ update_table(table, color)
    /\ supdate' = ret'
    /\ sent' = <<>>
    /\ written' = <<>>
    /\ smessage' = TeacherMessage(table, color)
    /\ spc' = "send_teacher_command"
    /\ applied' = Append(applied, ret')
    /\ UNCHANGED <<fwvars, desktop, now, _connections, inbox, scheduled, wsstate, receiver, wpc, wport,
                   cpc, line>>

\* api_reset, line 1202, and SerialReceiver.reset_all, line 1037
ApiReset ==
    /\ spc = "idle"
    /\ cpc = "idle"
    /\ call' = "api_reset"
    /\ sbefore' = store
    /\ _colors' = ColorsAfterReset(_colors)
    /\ _red_started' = RedStartedAfterReset(_colors, _red_started)
    /\ ret' = _snapshot_locked(_start, _end, _colors', _red_started', now)
    /\ supdate' = ret'
    /\ sent' = <<>>
    /\ written' = <<>>
    /\ smessage' = ResetMessage
    /\ spc' = "reset_all"
    /\ UNCHANGED <<fwvars, desktop, _start, _end, now, hubvars, receiver, wpc, wport, cpc, line>>

\* variant: only the reference is tested, not is_open
ResetRaisesNoneOnly == ~_connection

\* SerialReceiver.reset_all, line 1039
ResetRaises == ~_connection \/ ~handle.is_open

\* send_teacher_command, line 1031
SendRaises == ~_connection \/ ~handle.is_open

\* what the handler does with the RuntimeError, lines 1194-1195 and 1206-1207
LinkUnavailable == [type |-> "HTTPException", status_code |-> 503,
                    detail |-> "Serial link is not connected."]

\* variant: acquire() without a `with` block, so that the RuntimeError
\* leaves _connection_lock held
CommandLockedNoRelease(api, raises) ==
    /\ _connection_lock = "free"
    /\ IF raises
       THEN /\ call' = api
            /\ ret' = LinkUnavailable
            /\ sent' = <<>>
            /\ spc' = "idle"
            /\ applied' = Without(applied, supdate)
            /\ _connection_lock' = spc
            /\ handle' = handle
       ELSE /\ _connection_lock' = spc
            /\ handle' = [handle EXCEPT !.writing = TRUE]
            /\ spc' = api
            /\ UNCHANGED <<call, ret, sent, applied>>
    /\ UNCHANGED <<fwvars, desktop, store, now, _connections, inbox, scheduled, wsstate, _connection,
                   _active_port, _configured_port, _stop_event, wpc, wport, smessage,
                   supdate, sbefore, cpc, written, line>>

\* the command takes _connection_lock, and raises or starts to write
CommandLocked(api, raises) ==
    /\ _connection_lock = "free"
    /\ IF raises
       THEN /\ call' = api
            /\ ret' = LinkUnavailable
            /\ sent' = <<>>
            /\ spc' = "idle"
            /\ applied' = Without(applied, supdate)
            /\ UNCHANGED <<_connection_lock, handle>>
       ELSE /\ _connection_lock' = spc
            /\ handle' = [handle EXCEPT !.writing = TRUE]
            /\ spc' = api
            /\ UNCHANGED <<call, ret, sent, applied>>
    /\ UNCHANGED <<fwvars, desktop, store, now, _connections, inbox, scheduled, wsstate, _connection,
                   _active_port, _configured_port, _stop_event, wpc, wport, smessage,
                   supdate, sbefore, cpc, written, line>>

\* send_teacher_command, lines 1030-1032
SendTeacherCommand ==
    /\ spc = "send_teacher_command"
    /\ CommandLocked("api_update_table", SendRaises)

\* SerialReceiver.reset_all, lines 1038-1040
ResetAllCommand ==
    /\ spc = "reset_all"
    /\ CommandLocked("api_reset", ResetRaises)

\* lines 1033 and 1041: self._connection.write(message) returns and the lock
\* is released.  The write raises SerialException when the device fails or
\* the port is being closed or was closed meanwhile; no handler catches it,
\* and nothing of the receiver changes
CommandWrite(raises) ==
    /\ spc \in {"api_update_table", "api_reset"}
    /\ _connection_lock # "free"
    /\ handle' = [handle EXCEPT !.writing = FALSE]
    /\ _connection_lock' = "free"
    /\ IF raises
       THEN /\ call' = spc
            /\ ret' = [type |-> "SerialException"]
            /\ sent' = <<>>
            /\ spc' = "idle"
            /\ written' = written
            /\ applied' = Without(applied, supdate)
       ELSE /\ UNCHANGED <<call, ret, sent, spc, applied>>
            /\ written' = smessage
    /\ UNCHANGED <<fwvars, desktop, store, now, _connections, inbox, scheduled, wsstate, _connection,
                   _active_port, _configured_port, _stop_event, wpc, wport, smessage,
                   supdate, sbefore, cpc, line>>

\* api_update_table, lines 1196-1197, api_reset, lines 1208-1209: the payload
\* of the store call is broadcast and returned
CommandBroadcast ==
    /\ spc \in {"api_update_table", "api_reset"}
    /\ _connection_lock = "free"
    /\ cpc = "idle"
    /\ call' = spc
    /\ ret' = supdate
    /\ sent' = <<supdate>>
    /\ \E failing \in SUBSET Registered : broadcast(supdate, failing)
    /\ spc' = "idle"
    /\ applied' = Without(applied, supdate)
    /\ UNCHANGED <<fwvars, desktop, store, now, scheduled, wsstate, receiver, wpc, wport, smessage,
                   supdate, sbefore, cpc, written, line>>

\* set_port, lines 1015-1017, with the normalized port of api_serial_config
SetPort(port) ==
    /\ cpc = "idle"
    /\ wpc # "unstarted"
    /\ _configured_port' = port
    /\ handle' = [handle EXCEPT !.stale = handle.is_open]
    /\ cpc' = "_force_reconnect"
    /\ call' = "set_port"
    /\ ret' = [type |-> "None"]
    /\ sent' = <<>>
    /\ UNCHANGED <<fwvars, desktop, store, now, hubvars, _connection, _active_port, _stop_event,
                   _connection_lock, wpc, wport, spc, smessage, supdate, sbefore, written, line>>

\* _force_reconnect, under _connection_lock
ForceReconnect ==
    /\ cpc = "_force_reconnect"
    /\ _connection_lock = "free"
    /\ handle' = IF _connection /\ handle.is_open
                 THEN [handle EXCEPT !.is_open = FALSE] ELSE handle
    /\ _connection' = FALSE
    /\ _active_port' = NoPort
    /\ cpc' = "idle"
    /\ UNCHANGED <<fwvars, desktop, store, now, call, ret, sent, hubvars, _configured_port, _stop_event,
                   _connection_lock, wpc, wport, spc, smessage, supdate, sbefore, written, line>>

\* serial_status, read without the lock
SerialStatus ==
    /\ cpc = "idle"
    /\ call' = "serial_status"
    /\ ret' = [type |-> "serial_status", configured_port |-> _configured_port,
               connected_port |-> _active_port]
    /\ sent' = <<>>
    /\ UNCHANGED <<fwvars, desktop, store, now, hubvars, receiver, wpc, wport, spc, smessage, supdate, sbefore, cpc,
                   written, line>>

\* lifespan, line 1172: stop() sets the event, lines 1002-1004
StopSignal ==
    /\ cpc = "idle"
    /\ wpc # "unstarted"
    /\ ~_stop_event
    /\ _stop_event' = TRUE
    /\ cpc' = "join"
    /\ call' = "stop"
    /\ ret' = [type |-> "None"]
    /\ sent' = <<>>
    /\ UNCHANGED <<fwvars, desktop, store, now, hubvars, _connection, _active_port, _configured_port,
                   _connection_lock, handle, wpc, wport, spc, smessage, supdate, sbefore, written, line>>

\* stop, lines 1004-1012: join returns when the thread has ended or after
\* 5 seconds, then the connection is closed under _connection_lock
StopClose ==
    /\ cpc = "join"
    /\ _connection_lock = "free"
    /\ handle' = IF _connection THEN [handle EXCEPT !.is_open = FALSE] ELSE handle
    /\ _connection' = FALSE
    /\ _active_port' = NoPort
    /\ cpc' = "stopped"
    /\ UNCHANGED <<fwvars, desktop, store, now, call, ret, sent, hubvars, _configured_port, _stop_event,
                   _connection_lock, wpc, wport, spc, smessage, supdate, sbefore, written, line>>

\* ---- the lines the device sends in the model

Lines ==
    { <<"S", ",", "1", ",", "2", "\r", "\n">>,
      <<"T", ",", "1", ",", "0", "\n">>,
      <<BadByte, "R", "S", ",", "1", ",", " ", "2", "\n">>,
      <<"X", ",", "1", ",", "0", "\n">>,
      <<"R", "T", ",", "1", ",", "2", "\n">>,
      <<"R", "T", ",", "x", ",", "2", "\n">>,
      <<"R", "T", ",", "1", ",", "9", "\n">>,
      <<"S", ",", "1", "\n">>,
      <<"S", ",", "x", ",", "2", "\n">>,
      <<"S", ",", "1", ",", "r", "e", "d", "\n">>,
      <<"S", ",", "1", ",", "3", "\n">>,
      <<>> }

\* ======================================================================
\* The worker reading lines, the event loop delivering the broadcasts
\* ======================================================================

NextRead ==
    \/ Start
    \/ \E detected \in {NoPort, "COM3"} : WorkerResolve(detected)
    \/ \E opens \in BOOLEAN : WorkerOpen(opens)
    \/ WorkerPublish
    \/ \E bytes \in Lines : ReadLine(bytes)
    \/ ReadError
    \/ WorkerCloseBegin
    \/ WorkerCloseEnd
    \/ WorkerFinally
    \/ WorkerSleep
    \/ RunScheduled
    \/ WsConnect("ws1")

SpecRead == Init /\ [][NextRead]_vars

\* ---- port selection

UpperCase == <<"A", "B", "C", "D", "E", "F", "G", "H", "I", "J", "K", "L", "M",
               "N", "O", "P", "Q", "R", "S", "T", "U", "V", "W", "X", "Y", "Z">>

LowerCase == <<"a", "b", "c", "d", "e", "f", "g", "h", "i", "j", "k", "l", "m",
               "n", "o", "p", "q", "r", "s", "t", "u", "v", "w", "x", "y", "z">>

\* str.lower()
Lower(str) ==
    [i \in 1..Len(str) |->
        IF \E j \in 1..Len(UpperCase) : UpperCase[j] = str[i]
        THEN LowerCase[CHOOSE j \in 1..Len(UpperCase) : UpperCase[j] = str[i]]
        ELSE str[i]]

\* sub in str
Contains(str, sub) ==
    \E i \in 0..(Len(str) - Len(sub)) : SubSeq(str, i + 1, i + Len(sub)) = sub

\* a description comports() reports: a string, or None
Described(str) == [none |-> FALSE, str |-> str]

NoDescription == [none |-> TRUE, str |-> <<>>]

\* port.description or ""
DescriptionOrEmpty(port) == IF port.description.none THEN <<>> ELSE port.description.str

\* the tokens of line 1108
Tokens == {<<"m", "i", "c", "r", "o", "b", "i", "t">>, <<"m", "b", "e", "d">>,
           <<"c", "d", "c">>}

\* variant: the description is compared as it is, without lower()
DetectedCaseSensitive(comports) ==
    LET matching == {i \in 1..Len(comports) :
                        \E token \in Tokens :
                           Contains(DescriptionOrEmpty(comports[i]), token)}
    IN IF matching = {} THEN NoPort
       ELSE comports[CHOOSE i \in matching : \A j \in matching : i <= j].device

\* _resolve_port, lines 1106-1110: the loop over comports()
RECURSIVE Detected(_)
Detected(comports) ==
    IF comports = <<>> THEN NoPort
    ELSE LET port == Head(comports)
             description == Lower(DescriptionOrEmpty(port))
         IN IF \/ Contains(description, <<"m", "i", "c", "r", "o", "b", "i", "t">>)
               \/ Contains(description, <<"m", "b", "e", "d">>)
               \/ Contains(description, <<"c", "d", "c">>)
            THEN port.device
            ELSE Detected(Tail(comports))

\* what serial.tools.list_ports.comports() returns in the model
PortLists ==
    { <<>>,
      <<[device |-> "COM1", description |-> NoDescription]>>,
      <<[device |-> "COM1", description |-> Described(<<"U", "S", "B">>)],
        [device |-> "COM5", description |-> Described(<<"m", "i", "c", "r", "o", ":", "b", "i", "t">>)]>>,
      <<[device |-> "COM1", description |-> Described(<<"U", "S", "B">>)],
        [device |-> "COM3", description |-> Described(<<"M", "B", "E", "D", " ", "1">>)],
        [device |-> "COM4", description |-> Described(<<"m", "b", "e", "d">>)]>>,
      <<[device |-> "COM4", description |-> Described(<<"a", " ", "C", "d", "c">>)],
        [device |-> "COM3", description |-> Described(<<"M", "i", "c", "r", "o", "b", "i", "t">>)]>> }

\* ---- the worker's cycle with stop, set_port and one command, and the
\* scheduling the threads rely on

NextCycle ==
    \/ Start
    \/ \E comports \in PortLists : WorkerResolve(Detected(comports))
    \/ \E opens \in BOOLEAN : WorkerOpen(opens)
    \/ WorkerPublish
    \/ ReadLine(<<>>)
    \/ ReadStopped
    \/ ReadError
    \/ WorkerCloseBegin
    \/ WorkerCloseEnd
    \/ WorkerFinally
    \/ WorkerSleep
    \/ ApiUpdateTable(_start, "red")
    \/ SendTeacherCommand
    \/ \E raises \in BOOLEAN : CommandWrite(raises)
    \/ CommandBroadcast
    \/ \E port \in {NoPort, "COM4"} : SetPort(port)
    \/ ForceReconnect
    \/ StopSignal
    \/ StopClose

\* The worker thread and the request threads keep running: each step that
\* needs no lock is taken once it stays possible; time.sleep and a readline
\* with timeout=1 return; readline on a closed port raises; a thread that
\* waits for _connection_lock gets it, since the lock is held for one
\* write only.  Nothing obliges the device to answer, to fail or to open.
Scheduling ==
    /\ WF_vars(\E comports \in PortLists : WorkerResolve(Detected(comports)))
    /\ WF_vars(\E opens \in BOOLEAN : WorkerOpen(opens))
    /\ SF_vars(WorkerPublish)
    /\ WF_vars(ReadStopped)
    /\ WF_vars(ReadError /\ ~handle.is_open)
    /\ WF_vars(WorkerCloseBegin)
    /\ WF_vars(WorkerCloseEnd)
    /\ SF_vars(WorkerFinally)
    /\ WF_vars(WorkerSleep)
    /\ SF_vars(SendTeacherCommand)
    /\ WF_vars(\E raises \in BOOLEAN : CommandWrite(raises))
    /\ SF_vars(ForceReconnect)
    /\ SF_vars(StopClose)

SpecCycle == Init /\ [][NextCycle]_vars /\ Scheduling

\* ---- the page of an observer, lines 772-784: a snapshot replaces every
\* card, a table_update sets the card of one table

ObserverApply(view, message) ==
    IF message.type = "snapshot"
    THEN [i \in 1..Len(message.tables) |->
             <<message.tables[i].table, message.tables[i].color>>]
    ELSE IF message.type = "table_update"
    THEN DictSet(view, message.table.table, message.table.color)
    ELSE view

\* the cards after the messages of an inbox, applied oldest first
RECURSIVE ObserverView(_)
ObserverView(messages) ==
    IF messages = <<>> THEN <<>>
    ELSE ObserverApply(ObserverView(SubSeq(messages, 1, Len(messages) - 1)),
                       messages[Len(messages)])

\* ---- one table updated by its device and by a request, with one observer

OrderLines ==
    { <<"S", ",", "1", ",", "2", "\n">>,
      <<"S", ",", "1", ",", "0", "\n">> }

NextOrder ==
    \/ Start
    \/ WorkerResolve("COM3")
    \/ WorkerOpen(TRUE)
    \/ WorkerPublish
    \/ \E bytes \in OrderLines : ReadLine(bytes)
    \/ RunScheduled
    \/ ApiUpdateTable(1, "orange")
    \/ SendTeacherCommand
    \/ \E raises \in BOOLEAN : CommandWrite(raises)
    \/ CommandBroadcast
    \/ WsConnect("ws1")
    \/ WsSnapshot("ws1")

SpecOrder == Init /\ [][NextOrder]_vars

\* ---- module load: the range of tables from TABLE_RANGE

\* os.getenv: a string, or None when the variable is not set
EnvSet(str) == [none |-> FALSE, str |-> str]

EnvUnset == [none |-> TRUE, str |-> <<>>]

\* raw.split("-", 1)
SplitOnce(str) ==
    IF \A i \in 1..Len(str) : str[i] # "-"
    THEN <<str>>
    ELSE LET i == CHOOSE i \in 1..Len(str) :
                     str[i] = "-" /\ \A j \in 1..(i - 1) : str[j] # "-"
         IN <<SubSeq(str, 1, i - 1), SubSeq(str, i + 1, Len(str))>>

FallbackRange == <<1, 50>>

\* variant: without the test `start <= 0 or end < start`
ParsedRangeUnchecked(raw) ==
    IF raw.none \/ raw.str = <<>> THEN FallbackRange
    ELSE LET parts == SplitOnce(raw.str)
         IN IF Len(parts) # 2 THEN FallbackRange
            ELSE LET start == PyInt(parts[1])
                     end == PyInt(parts[2])
                 IN IF ~start.ok \/ ~end.ok THEN FallbackRange
                    ELSE <<start.value, end.value>>

\* parse_table_range, lines 845-857; every failure inside the try block is
\* a ValueError: the unpacking of a single part, int() of a part, and the
\* raise of line 853
parse_table_range(raw) ==
    IF raw.none \/ raw.str = <<>> THEN FallbackRange
    ELSE LET parts == SplitOnce(raw.str)
         IN IF Len(parts) # 2 THEN FallbackRange
            ELSE LET start == PyInt(parts[1])
                     end == PyInt(parts[2])
                 IN IF ~start.ok \/ ~end.ok THEN FallbackRange
                    ELSE IF start.value <= 0 \/ end.value < start.value
                    THEN FallbackRange
                    ELSE <<start.value, end.value>>

\* the values of TABLE_RANGE in the model: unset, every string of at most
\* MaxRangeText characters of RangeAlphabet, and some longer ones
MaxRangeText == 3

RangeAlphabet == {"0", "1", "3", "-", "x", " "}

RawRanges ==
    {EnvUnset}
    \cup {EnvSet(str) : str \in UNION {[1..n -> RangeAlphabet] : n \in 0..MaxRangeText}}
    \cup {EnvSet(str) : str \in
            { <<"+", "1", "-", "3">>, <<"1", "-", "1", "2">>, <<"1", "0", "-", "1", "2">>,
              <<"-", "1", "-", "3">>, <<"1", "-", "-", "3">>, <<"1", "-", "3", "-", "3">>,
              <<" ", "2", " ", "-", " ", "3", " ">>, <<"1", "_", "0", "-", "1", "2">>,
              <<"1", "2", "-", "1", "0">>, <<"5", "0">>, <<"1", "-", "3", "\n">>,
              <<"1", "-", "5", "0">>, <<"1", ".", "0", "-", "3">> }}

\* before line 1158 nothing exists but the manager and the receiver
InitLoad ==
    /\ _start = 0
    /\ _end = 0
    /\ _colors = <<>>
    /\ _red_started = <<>>
    /\ now = 1
    /\ call = "import"
    /\ ret = [type |-> "none"]
    /\ sent = <<>>
    /\ _connections = <<>>
    /\ inbox = [ws \in Websockets |-> <<>>]
    /\ scheduled = <<>>
    /\ wsstate = [ws \in Websockets |-> "new"]
    /\ applied = <<>>
    /\ _connection = FALSE
    /\ _active_port = NoPort
    /\ _configured_port = NoPort
    /\ _stop_event = FALSE
    /\ _connection_lock = "free"
    /\ handle = NoHandle
    /\ wpc = "unstarted"
    /\ wport = NoPort
    /\ spc = "idle"
    /\ smessage = <<>>
    /\ supdate = [type |-> "None"]
    /\ sbefore = <<>>
    /\ cpc = "idle"
    /\ written = <<>>
    /\ line = <<>>
    /\ InitDevices
    /\ InitDesktop

\* lines 1158-1159: table_state = TableState(*parse_table_range(raw)); ret
\* keeps the argument beside the pair returned
LoadTableState(raw) ==
    /\ call = "import"
    /\ call' = "parse_table_range"
    /\ ret' = [type |-> "range", raw |-> raw, range |-> parse_table_range(raw)]
    /\ _start' = ret'.range[1]
    /\ _end' = ret'.range[2]
    /\ _colors' = RangeDict(_start', _end', "green")
    /\ _red_started' = RangeDict(_start', _end', None)
    /\ sent' = <<>>
    /\ UNCHANGED <<fwvars, desktop, now, hubvars, linkvars>>

NextLoad == \E raw \in RawRanges : LoadTableState(raw)

SpecLoad == InitLoad /\ [][NextLoad]_vars

\* ======================================================================
\* The firmware of a device, microbit_main.py.  studentLightMicrobit.py
\* holds the same handlers without the beta and the transmitter branches.
\* ======================================================================

\* lines 130-134
colorList == <<"green", "orange", "red">>

\* parse_float(text) of a field: digits after an optional minus sign give
\* their value, a field that is no number gives NaN, which equals nothing
NaN == -999

IsNumber(str) ==
    LET body == IF str # <<>> /\ str[1] = "-" THEN Tail(str) ELSE str
    IN body # <<>> /\ \A i \in 1..Len(body) : IsDigit(body[i])

parse_float(str) ==
    IF ~IsNumber(str) THEN NaN
    ELSE IF str[1] = "-" THEN 0 - NatValue(Tail(str))
    ELSE NatValue(str)

\* convert_to_text(n), str(n)
convert_to_text(n) == IF n = NaN THEN <<"N", "a", "N">> ELSE IntStr(n)

\* max(a, b) and min(a, b)
max(a, b) == IF a > b THEN a ELSE b
min(a, b) == IF a < b THEN a ELSE b

\* line 114: colorList[colorIndex] of an index outside the list raises in a
\* build that checks the index, and reads nothing in one that does not
IndexRaises(colorIndex) ==
    IF colorIndex \in 0..(Len(colorList) - 1) THEN {FALSE} ELSE BOOLEAN

\* showColor, lines 112-118: what it passes to radio.send_string, for the
\* device id at the time of the call
showColor(id, colorIndex, radioOn, raises) ==
    IF radioOn /\ ~raises
    THEN << <<"S", ",">> \o convert_to_text(id) \o <<",">> \o convert_to_text(colorIndex) >>
    ELSE <<>>

\* a repeater that sent every received string again
RepeatedAnyRole(receivedString) == << <<"R">> \o receivedString >>

\* lines 103-107: what a repeater sends again for a received string
Repeated(receivedString) ==
    IF Split(receivedString)[1] \in {<<"T">>, <<"S">>}
    THEN << <<"R">> \o receivedString >>
    ELSE <<>>

\* lines 95-99: the received string is a command for this device
Addressed(id, receivedArray) ==
    /\ receivedArray[1] \in {<<"T">>, <<"RT">>}
    /\ Len(receivedArray) >= 3
    /\ parse_float(receivedArray[2]) \in {id, -1}

\* str.split(",", maxsplit): at most maxsplit cuts, from the left
RECURSIVE SplitMax(_, _)
SplitMax(str, maxsplit) ==
    IF maxsplit = 0 \/ \A i \in 1..Len(str) : str[i] # ","
    THEN <<str>>
    ELSE LET i == CHOOSE i \in 1..Len(str) :
                     str[i] = "," /\ \A j \in 1..(i - 1) : str[j] # ","
         IN <<SubSeq(str, 1, i - 1)>> \o SplitMax(SubSeq(str, i + 1, Len(str)), maxsplit - 1)

MSG == <<"M", "S", "G">>
RESET == <<"R", "E", "S", "E", "T">>
SWITCHMODE == <<"S", "W", "I", "T", "C", "H", "M", "O", "D", "E">>

\* handle_message, lines 222-246, for the last message id of the device:
\* what it returns, the last message id it leaves, what it sends and the
\* commands it hands to handle_msg_command.  int() of a field that is no
\* number raises out of the handler
handle_message(last, msg) ==
    LET parts == SplitMax(msg, 3)
        unprocessed == [returned |-> FALSE, raised |-> FALSE, last_msg_id |-> last,
                        sent |-> <<>>, executed |-> <<>>]
    IN IF Len(parts) < 5 THEN unprocessed
       ELSE IF parts[1] # MSG THEN unprocessed
       ELSE IF ~PyInt(parts[2]).ok \/ ~PyInt(parts[3]).ok
            THEN [unprocessed EXCEPT !.raised = TRUE]
       ELSE LET msg_id == PyInt(parts[2]).value
                transmit_count == PyInt(parts[3]).value
                command == parts[4]
            IN IF msg_id <= last
               THEN [unprocessed EXCEPT !.returned = TRUE]
               ELSE [returned |-> TRUE, raised |-> FALSE, last_msg_id |-> msg_id,
                     sent |-> IF transmit_count # 0
                              THEN << MSG \o <<",">> \o IntStr(msg_id) \o <<",">>
                                      \o IntStr(transmit_count - 1) \o <<",">> \o command >>
                              ELSE <<>>,
                     executed |-> <<command>>]

\* handle_msg_command, lines 259-264: RESET restarts the device
Resets(executed) ==
    \E i \in 1..Len(executed) : SplitMax(executed[i], 1)[1] = RESET

\* radio.send_string: every other device in range receives the strings
Radio(from, strings, queues) ==
    [e \in Devices |-> IF e = from THEN queues[e] ELSE queues[e] \o strings]

core == <<store, now, call, ret, sent, hubvars, linkvars, desktop>>

\* the lines counted as original are those a device sends of its own or is
\* fed on its serial port
MaxOriginals == 2

\* a device sends strings of its own
Originates(d, strings) ==
    /\ originals + Len(strings) <= MaxOriginals
    /\ originals' = originals + Len(strings)
    /\ radio_sent' = strings
    /\ rx' = Radio(d, strings, rx)
    /\ handled' = NoMessage
    /\ UNCHANGED <<repeats, last_msg_id, core>>

\* on_button_pressed_a, lines 48-55, with on_button_pressed_a_beta
on_button_pressed_a(d, raises) ==
    /\ raises \in IndexRaises(max(currentColorIndex[d] - 1, 0))
    /\ IF beta[d]
       THEN /\ Originates(d, << <<"A">> >>)
            /\ UNCHANGED currentColorIndex
       ELSE /\ currentColorIndex' =
                   [currentColorIndex EXCEPT ![d] = max(currentColorIndex[d] - 1, 0)]
            /\ Originates(d, showColor(deviceID[d], currentColorIndex'[d], TRUE, raises))
    /\ UNCHANGED <<deviceID, repeaterOn, beta, transmitter>>

\* on_button_pressed_b, lines 60-67, with on_button_pressed_b_beta
on_button_pressed_b(d, raises) ==
    /\ raises \in IndexRaises(min(Len(colorList) - 1, currentColorIndex[d] + 1))
    /\ IF beta[d]
       THEN /\ Originates(d, << <<"B">> >>)
            /\ UNCHANGED currentColorIndex
       ELSE /\ currentColorIndex' =
                   [currentColorIndex EXCEPT
                        ![d] = min(Len(colorList) - 1, currentColorIndex[d] + 1)]
            /\ Originates(d, showColor(deviceID[d], currentColorIndex'[d], TRUE, raises))
    /\ UNCHANGED <<deviceID, repeaterOn, beta, transmitter>>

\* on_button_pressed_ab, lines 72-79, with on_button_pressed_ab_beta
on_button_pressed_ab(d) ==
    /\ IF beta[d]
       THEN /\ Originates(d, << <<"A", "B">> >>)
            /\ UNCHANGED currentColorIndex
       ELSE /\ currentColorIndex' = [currentColorIndex EXCEPT ![d] = 0]
            /\ Originates(d, showColor(deviceID[d], 0, TRUE, FALSE))
    /\ UNCHANGED <<deviceID, repeaterOn, beta, transmitter>>

\* on_logo_long_pressed, lines 6-41: nothing in beta mode; otherwise buttons
\* A and B move the id, never below 0, the logo toggles the role, and after
\* two quiet seconds the device shows green and reports it
on_logo_long_pressed(d, id, role) ==
    /\ ~beta[d]
    /\ id >= 0
    /\ deviceID' = [deviceID EXCEPT ![d] = id]
    /\ repeaterOn' = [repeaterOn EXCEPT ![d] = role]
    /\ currentColorIndex' = [currentColorIndex EXCEPT ![d] = 0]
    /\ Originates(d, showColor(id, 0, TRUE, FALSE))
    /\ UNCHANGED <<beta, transmitter>>

\* on_forever, lines 154-162, with beta_forever_loop: nothing on the
\* transmitter; otherwise the status line every 4 to 6 seconds, or the
\* heartbeat of beta mode
on_forever(d, raises) ==
    /\ ~transmitter[d]
    /\ raises \in IndexRaises(currentColorIndex[d])
    /\ IF beta[d]
       THEN Originates(d, << <<"H", "B">> >>)
       ELSE Originates(d, showColor(deviceID[d], currentColorIndex[d], TRUE, raises))
    /\ UNCHANGED <<deviceID, repeaterOn, currentColorIndex, beta, transmitter>>

\* on_data_received, lines 170-176: a line on the serial port makes the
\* device the transmitter and goes out on the radio; nothing in beta mode
on_data_received(d, read_line) ==
    /\ ~beta[d]
    /\ transmitter' = [transmitter EXCEPT ![d] = TRUE]
    /\ Originates(d, <<read_line>>)
    /\ UNCHANGED <<deviceID, repeaterOn, currentColorIndex, beta>>

\* on_received_string, lines 84-107, for the oldest string the radio holds
\* for the device.  The transmitter writes it to its serial port; SWITCHMODE
\* enters beta mode; in beta mode handle_beta_received runs; otherwise a
\* command for the device sets and shows its color, and a repeater sends a
\* "T" or "S" line again.  control.reset() starts the device again from its
\* flash
on_received_string(d, raises) ==
    /\ rx[d] # <<>>
    /\ LET receivedString == Head(rx[d])
           receivedArray == Split(receivedString)
           mode == IF transmitter[d] THEN "serial"
                   ELSE IF receivedString = SWITCHMODE THEN "switch"
                   ELSE IF beta[d] THEN "beta"
                   ELSE "light"
           addressed == mode = "light" /\ Addressed(deviceID[d], receivedArray)
           colorIndex == IF addressed THEN parse_float(receivedArray[3])
                         ELSE currentColorIndex[d]
           resent == IF mode = "light" /\ ~raises /\ repeaterOn[d]
                     THEN Repeated(receivedString) ELSE <<>>
           message == IF mode = "beta" THEN handle_message(last_msg_id[d], receivedString)
                      ELSE handle_message(last_msg_id[d], <<>>)
           reset == Resets(message.executed)
           strings == resent \o message.sent
                      \o (IF reset THEN showColor(deviceID[d], 0, TRUE, FALSE) ELSE <<>>)
       IN /\ raises \in (IF addressed THEN IndexRaises(colorIndex) ELSE {FALSE})
          /\ currentColorIndex' =
                 [currentColorIndex EXCEPT ![d] = IF reset THEN 0 ELSE colorIndex]
          /\ beta' = [beta EXCEPT ![d] = (mode = "switch" \/ @) /\ ~reset]
          /\ transmitter' = [transmitter EXCEPT ![d] = @ /\ ~reset]
          /\ last_msg_id' = [last_msg_id EXCEPT
                                 ![d] = IF reset THEN -1 ELSE message.last_msg_id]
          /\ repeats' = [repeats EXCEPT ![d] = @ + Len(resent)]
          /\ radio_sent' = strings
          /\ rx' = Radio(d, strings, [rx EXCEPT ![d] = Tail(@)])
          /\ handled' = IF mode = "beta"
                        THEN [msg |-> receivedString, returned |-> message.returned,
                              executed |-> message.executed]
                        ELSE NoMessage
    /\ UNCHANGED <<deviceID, repeaterOn, originals, core>>

\* ---- devices in range of each other, each a repeater or not by its flash:
\* they report their color, and the first one is plugged into the computer
\* and fed its commands

RepeaterLines ==
    { <<"T", ",", "0", ",", "2">>,
      <<"T", ",", "-", "1", ",", "1">> }

\* the flash of device d holds the id d - 1 and either role
InitRadio ==
    /\ InitCore
    /\ _start = 1
    /\ _end = 1
    /\ \E roles \in [Devices -> BOOLEAN] : Boot([d \in Devices |-> d - 1], roles)

NextRepeat ==
    \/ \E d \in Devices : on_forever(d, FALSE)
    \/ \E read_line \in RepeaterLines : on_data_received(1, read_line)
    \/ \E d \in Devices : on_received_string(d, FALSE)

\* the radio hands every string it holds to on_received_string
Delivery == \A d \in Devices : WF_vars(on_received_string(d, FALSE))

SpecRepeat == InitRadio /\ [][NextRepeat]_vars /\ Delivery

\* ---- student devices under their buttons and the radio: the first one is
\* plugged into a computer that writes lines of the wire format, among them
\* one with a color index no color has and one with an id that is no number

LightLines ==
    { <<"T", ",", "1", ",", "2">>,
      <<"T", ",", "-", "1", ",", "5">>,
      <<"T", ",", "x", ",", "1">> }

NextLight ==
    \/ \E d \in Devices, raises \in BOOLEAN : on_button_pressed_a(d, raises)
    \/ \E d \in Devices, raises \in BOOLEAN : on_button_pressed_b(d, raises)
    \/ \E d \in Devices : on_button_pressed_ab(d)
    \/ \E d \in Devices, id \in DeviceIds, role \in BOOLEAN : on_logo_long_pressed(d, id, role)
    \/ \E read_line \in LightLines : on_data_received(1, read_line)
    \/ \E d \in Devices, raises \in BOOLEAN : on_received_string(d, raises)

SpecLight == InitRadio /\ [][NextLight]_vars

\* ---- devices switched to beta mode over the radio and sent messages: the
\* first one is plugged into the computer, which writes SWITCHMODE and
\* messages of the form MSG,<msg_id>,<transmit_count>,<command>

BetaLines ==
    { SWITCHMODE,
      MSG \o <<",", "1", ",", "1", ",">> \o RESET,
      MSG \o <<",", "0", ",", "0", ",">> \o RESET }

NextBeta ==
    \/ \E d \in Devices : on_button_pressed_ab(d)
    \/ \E d \in Devices : on_forever(d, FALSE)
    \/ \E read_line \in BetaLines : on_data_received(1, read_line)
    \/ \E d \in Devices : on_received_string(d, FALSE)

SpecBeta == InitRadio /\ [][NextBeta]_vars

\* ---- the worker reading lines that carry the id of no table: a command
\* for every device, looped back, and a device that reports id 0

IdLines ==
    { <<"T", ",", "-", "1", ",", "0", "\n">>,
      <<"S", ",", "0", ",", "2", "\n">>,
      <<"S", ",", "1", ",", "2", "\n">> }

NextIds ==
    \/ Start
    \/ \E detected \in {NoPort, "COM3"} : WorkerResolve(detected)
    \/ \E opens \in BOOLEAN : WorkerOpen(opens)
    \/ WorkerPublish
    \/ \E bytes \in IdLines : ReadLine(bytes)
    \/ ReadError
    \/ WorkerCloseBegin
    \/ WorkerCloseEnd
    \/ WorkerFinally
    \/ WorkerSleep
    \/ RunScheduled

SpecIds == Init /\ [][NextIds]_vars

\* ======================================================================
\* The commands of the request handlers against the worker, set_port, stop
\* ======================================================================

NextLink ==
    \/ Start
    \/ \E detected \in {NoPort, "COM3"} : WorkerResolve(detected)
    \/ \E opens \in BOOLEAN : WorkerOpen(opens)
    \/ WorkerPublish
    \/ ReadLine(<<>>)
    \/ ReadStopped
    \/ ReadError
    \/ WorkerCloseBegin
    \/ WorkerCloseEnd
    \/ WorkerFinally
    \/ WorkerSleep
    \/ \E color \in {"red", "orange"} : ApiUpdateTable(_start, color)
    \/ ApiReset
    \/ SendTeacherCommand
    \/ ResetAllCommand
    \/ \E raises \in BOOLEAN : CommandWrite(raises)
    \/ CommandBroadcast
    \/ \E port \in {NoPort, "COM4"} : SetPort(port)
    \/ ForceReconnect
    \/ SerialStatus
    \/ StopSignal
    \/ StopClose

SpecLink == Init /\ [][NextLink]_vars

\* ======================================================================
\* ws_manager with its websockets; api_table_range is the caller of
\* broadcast
\* ======================================================================

NextHub ==
    \/ \E ws \in Websockets : WsConnect(ws)
    \/ \E ws \in Websockets : WsSnapshot(ws)
    \/ \E ws \in Websockets : WsFail(ws)
    \/ \E ws \in Websockets : WsDisconnect(ws)
    \/ \E start \in {0, _start} : ApiTableRange(start, _end)

SpecHub == Init /\ [][NextHub]_vars

\* the websockets of conns that are not in `failing`, in list order
RECURSIVE Surviving(_, _)
Surviving(conns, failing) ==
    IF conns = <<>> THEN <<>>
    ELSE (IF conns[1] \in failing THEN <<>> ELSE <<conns[1]>>)
         \o Surviving(Tail(conns), failing)

\* C14: a broadcast, whichever registered websockets fail and wherever
\* they are in the list, delivers the message to every registered
\* websocket whose send succeeds, to no other, unregisters exactly the
\* failing ones, and the handler that called it still returns its payload.
C14_BroadcastIsolatesFailures ==
    [][\A failing \in SUBSET Registered :
          (sent' # <<>> /\ broadcast(sent'[1], failing)) =>
             /\ \A ws \in Registered \ failing :
                   inbox'[ws] = Append(inbox[ws], sent'[1])
             /\ \A ws \in Websockets \ (Registered \ failing) :
                   inbox'[ws] = inbox[ws]
             /\ _connections' = Surviving(_connections, failing)
             /\ ret'.type \in Payloads]_vars

\* two websockets registered and served, a third one pruned while its
\* endpoint is still running: it was registered between them or around them
C14_Witness ==
    /\ call = "api_table_range"
    /\ sent # <<>>
    /\ Len(_connections) = 2
    /\ \A ws \in Registered :
          inbox[ws] # <<>> /\ inbox[ws][Len(inbox[ws])] = sent[1]
    /\ \E ws \in Websockets \ Registered :
          wsstate[ws] \in {"registered", "receiving"}

\* C15: disconnect succeeds whether or not the websocket is registered; it
\* removes a registered websocket and nothing else, leaves the list as it
\* is for one that is not registered (never was, or pruned by a
\* broadcast), and a second disconnect of the same websocket changes nothing.
C15_DisconnectIdempotent ==
    [][\A ws \in Websockets :
          WsDisconnect(ws) =>
             /\ ret'.type = "None"
             /\ _connections' = Surviving(_connections, {ws})
             /\ ~ListHas(_connections, ws) => _connections' = _connections
             /\ Disconnected(_connections', ws) = _connections']_vars

\* an endpoint has disconnected a websocket that never received anything,
\* while a registered one has received a snapshot and a broadcast
C15_Witness ==
    /\ call = "disconnect"
    /\ \E ws \in Websockets :
          /\ wsstate[ws] = "closed"
          /\ inbox[ws] = <<>>
          /\ \E other \in Registered : Len(inbox[other]) = MaxInbox

\* ======================================================================
\* Lines read from the serial port
\* ======================================================================

\* teacherApplication.py, process_serial_data: what one line leads to; ok
\* stands for the call of update_table_color_from_serial(index, color_id).
\* decode('utf-8') is strict, and the outer `except Exception` takes every
\* error, among them the ValueError of int(table_str) in the range test
process_serial_data(bytes, start_table, end_table) ==
    LET ignored == [ok |-> FALSE, index |-> 0, color_id |-> 0]
        str == Strip(bytes)
        parts == Split(str)
    IN IF \E i \in 1..Len(bytes) : bytes[i] = BadByte THEN ignored
       ELSE IF str = <<>> THEN ignored
       ELSE IF Len(parts) # 3 THEN ignored
       ELSE LET role == parts[1]
                table == PyInt(parts[2])
                color_id == PyInt(parts[3])
            IN IF ~table.ok THEN ignored
               ELSE IF start_table > table.value \/ table.value > end_table THEN ignored
               ELSE IF role = <<"R", "T">> THEN ignored
               ELSE IF ~color_id.ok THEN ignored
               ELSE [ok |-> TRUE, index |-> table.value - start_table,
                     color_id |-> color_id.value]

\* ---- the desktop application, teacherApplication.py.  An index is the
\* position of a table in the lists, from 0

\* line 79: the color a click gives a tile
next_color(current_color) ==
    CASE current_color = "green" -> "orange"
      [] current_color = "orange" -> "red"
      [] current_color = "red" -> "green"
      [] OTHER -> "green"

\* lines 64-72 and 78-87: the red start is taken when the table turns red,
\* kept while it stays red and dropped with any other color
Recolored(index, new_color) ==
    LET current_color == desktop.table_colors[index + 1]
        started == desktop.red_start_time[index + 1]
    IN [desktop EXCEPT
           !.red_start_time[index + 1] =
               IF new_color = "red" /\ current_color # "red" THEN now
               ELSE IF new_color # "red" THEN None
               ELSE started,
           !.table_colors[index + 1] = new_color]

\* connect_to_port, lines 139-149
connect_to_port(opens) ==
    /\ desktop' = [desktop EXCEPT !.ser = IF opens THEN "open" ELSE "None", !.wrote = <<>>]
    /\ UNCHANGED <<store, now, call, ret, sent, hubvars, linkvars, fwvars>>

\* cycle_table_color, lines 76-97: a click on the tile of a table
cycle_table_color(index) ==
    /\ index \in 0..(Len(desktop.table_colors) - 1)
    /\ LET color == next_color(desktop.table_colors[index + 1])
           msg == <<"T", ",">> \o IntStr(index + desktop.start_table) \o <<",">>
                  \o IntStr(COLOR_NAME_TO_ID(color)) \o <<"\n">>
       IN desktop' = [Recolored(index, color) EXCEPT
                         !.wrote = IF desktop.ser = "open" THEN msg ELSE <<>>]
    /\ UNCHANGED <<store, now, call, ret, sent, hubvars, linkvars, fwvars>>

\* process_serial_data, lines 8-56, for one line read by the thread: an
\* accepted line queues update_table_color_from_serial with root.after
ReadDeskLine(bytes) ==
    /\ desktop.ser = "open"
    /\ Len(desktop.after) < MaxScheduled
    /\ LET read == process_serial_data(bytes, desktop.start_table, desktop.end_table)
       IN desktop' = [desktop EXCEPT
                         !.after = IF read.ok /\ 0 <= read.index
                                      /\ read.index < Len(desktop.table_colors)
                                   THEN Append(@, <<read.index, read.color_id>>)
                                   ELSE @,
                         !.wrote = <<>>]
    /\ UNCHANGED <<store, now, call, ret, sent, hubvars, linkvars, fwvars>>

\* update_table_color_from_serial, lines 58-74, for the oldest queued call;
\* an unknown color id is only printed, and an index past the lists, left
\* by a range update in between, raises in the callback
update_table_color_from_serial ==
    /\ desktop.after # <<>>
    /\ LET index == Head(desktop.after)[1]
           new_color == ColorOfIndex(Head(desktop.after)[2])
       IN desktop' = [(IF new_color # "None" /\ index < Len(desktop.table_colors)
                       THEN Recolored(index, new_color) ELSE desktop)
                      EXCEPT !.after = Tail(desktop.after), !.wrote = <<>>]
    /\ UNCHANGED <<store, now, call, ret, sent, hubvars, linkvars, fwvars>>

\* reset_all_green, lines 99-114: nothing without an open port
reset_all_green ==
    /\ desktop' = IF desktop.ser = "open"
                  THEN [desktop EXCEPT
                           !.table_colors = [i \in 1..Len(@) |-> "green"],
                           !.wrote = <<"T", ",", "-", "1", ",", "0", "\n">>]
                  ELSE [desktop EXCEPT !.wrote = <<>>]
    /\ UNCHANGED <<store, now, call, ret, sent, hubvars, linkvars, fwvars>>

\* update_table_range, lines 153-197, for two entries that are integers:
\* the globals are assigned before the test, the lists rebuilt after it
update_table_range(start, end) ==
    /\ desktop' = IF start >= end + 1
                  THEN [desktop EXCEPT !.start_table = start, !.end_table = end + 1,
                                       !.wrote = <<>>]
                  ELSE [desktop EXCEPT
                           !.start_table = start,
                           !.end_table = end + 1,
                           !.red_start_time = [i \in 1..(end + 1 - start) |-> None],
                           !.table_colors = [i \in 1..(end + 1 - start) |-> "green"],
                           !.wrote = <<>>]
    /\ UNCHANGED <<store, now, call, ret, sent, hubvars, linkvars, fwvars>>

\* update_longest_red_list, lines 118-128: the indexes listed, those with a
\* red start at least a second old
update_longest_red_list ==
    { index \in 0..(Len(desktop.red_start_time) - 1) :
        /\ desktop.red_start_time[index + 1] # None
        /\ (now - desktop.red_start_time[index + 1]) \div TicksPerSecond > 0 }

DeskLines ==
    { <<"S", ",", "1", ",", "2", "\n">>,
      <<"S", ",", "1", ",", "7", "\n">>,
      <<"R", "T", ",", "1", ",", "2", "\n">> }

InitDesk == Init /\ _start = 1 /\ _end = 1

NextDesk ==
    \/ Tick
    \/ \E opens \in BOOLEAN : connect_to_port(opens)
    \/ \E index \in 0..MaxTable : cycle_table_color(index)
    \/ \E bytes \in DeskLines : ReadDeskLine(bytes)
    \/ update_table_color_from_serial
    \/ reset_all_green
    \/ \E start \in 1..MaxTable, end \in 0..MaxTable : update_table_range(start, end)

SpecDesk == InitDesk /\ [][NextDesk]_vars

\* the fields of a received line
Fields(bytes) == Split(Strip(Decode(bytes)))

IsEcho(bytes) == Len(Fields(bytes)) = 3 /\ Fields(bytes)[1] = <<"R", "T">>

\* a field count other than 3, an id or a color that is not an integer, or
\* a color index that is none of 0, 1, 2
Malformed(bytes) ==
    \/ Len(Fields(bytes)) # 3
    \/ ~PyInt(Fields(bytes)[2]).ok
    \/ ~PyInt(Fields(bytes)[3]).ok
    \/ PyInt(Fields(bytes)[3]).value \notin {0, 1, 2}

Accepted(bytes) == ~IsEcho(bytes) /\ ~Malformed(bytes)

\* C11: a line whose role is "RT" changes nothing in the store and queues
\* and sends no broadcast, whether its id and color are valid, not numbers
\* or out of range; the desktop application does not apply it either.
C11_EchoIgnored ==
    [][(wpc = "read" /\ IsEcho(line') /\ ReadLine(line')) =>
          /\ UNCHANGED <<store, scheduled, sent, inbox, _connections>>
          /\ ~process_serial_data(line', _start, _end).ok]_vars

\* the worker has just read "RT,1,2" and table 1 is still not red
C11_Witness ==
    /\ line = <<"R", "T", ",", "1", ",", "2", "\n">>
    /\ wpc = "read"
    /\ DictHas(_colors, 1) /\ DictGet(_colors, 1) # "red"
    /\ scheduled = <<>>

\* C12: a malformed line changes nothing in the store, queues and sends no
\* broadcast, and leaves the worker in its read loop with the connection
\* recorded and open, so that the next line is read.
C12_MalformedDropped ==
    [][(wpc = "read" /\ Malformed(line') /\ ~IsEcho(line') /\ ReadLine(line')) =>
          /\ UNCHANGED <<store, scheduled, sent, inbox, _connections>>
          /\ wpc' = "read"
          /\ _connection' /\ _active_port' = wport /\ handle'.is_open
          /\ ~_stop_event']_vars

\* after an accepted line, the worker has read "S,1,3" or "S,1,red" and is
\* still connected
C12_Witness ==
    /\ line \in {<<"S", ",", "1", ",", "3", "\n">>,
                 <<"S", ",", "1", ",", "r", "e", "d", "\n">>}
    /\ call = "_read_loop"
    /\ wpc = "read"
    /\ _connection /\ handle.is_open

\* C13: each accepted line makes one update of the store and queues one
\* broadcast of the payload of that update; the event loop runs each queued
\* broadcast once, oldest first, with that payload; and the queue changes
\* in no other way.
C13_OneUpdateOneBroadcast ==
    [][/\ (wpc = "read" /\ Accepted(line') /\ ReadLine(line')) =>
             /\ ret'.type = "table_update"
             /\ ret'.table = [table |-> Parsed(line').table,
                              color |-> Parsed(line').color]
             /\ DictGet(_colors', Parsed(line').table) = Parsed(line').color
             /\ scheduled' = Append(scheduled, ret')
             /\ inbox' = inbox
       /\ (scheduled # <<>> /\ RunScheduled) =>
             /\ sent' = <<Head(scheduled)>>
             /\ scheduled' = Tail(scheduled)
             /\ UNCHANGED store
             /\ \A ws \in Websockets :
                   inbox'[ws] \in {inbox[ws], Append(inbox[ws], Head(scheduled))}
       /\ scheduled' # scheduled =>
             \/ wpc = "read" /\ Accepted(line') /\ ReadLine(line')
             \/ scheduled # <<>> /\ RunScheduled]_vars

\* the broadcast of a line's update has been delivered to a websocket, the
\* queue is empty again and the store holds the color of that update
C13_Witness ==
    /\ call = "broadcast"
    /\ sent # <<>> /\ sent[1].type = "table_update"
    /\ scheduled = <<>>
    /\ \E ws \in Registered :
          inbox[ws] # <<>> /\ inbox[ws][Len(inbox[ws])] = sent[1]
    /\ DictGet(_colors, sent[1].table.table) = sent[1].table.color

\* ======================================================================
\* Commands and the connection
\* ======================================================================

\* C16: a command request that fails because no serial connection is open
\* writes nothing and leaves the store as the request found it.
C16_FailedCommandKeepsStore ==
    [][(SendTeacherCommand \/ ResetAllCommand) /\ ret' = LinkUnavailable =>
          /\ written' = <<>>
          /\ ~handle'.writing
          /\ store' = sbefore]_vars

\* the index the wire format gives a color
WireIndex(color) == CASE color = "green" -> 0 [] color = "orange" -> 1 [] color = "red" -> 2

\* ids a command may carry, -1 being every table
CommandIds == {-1, 0, 10, 105}

\* C17: the command of a table update is the line "T,<id>,<index>" and a
\* newline, with index 0 for green, 1 for orange, 2 for red; it is written
\* as it is on the open connection; and the read loop decodes such a line
\* to the same id and color.
C17_CommandRoundTrip ==
    [][/\ (/\ spc = "idle" /\ spc' = "send_teacher_command"
           /\ ApiUpdateTable(supdate'.table.table, supdate'.table.color)) =>
             LET table == supdate'.table.table
                 color == supdate'.table.color
             IN /\ smessage' = <<"T", ",">> \o IntStr(table) \o <<",">>
                                   \o <<DigitOf(WireIndex(color))>> \o <<"\n">>
                /\ Parsed(smessage') = [ok |-> TRUE, table |-> table, color |-> color]
                /\ \A id \in CommandIds, c \in VALID_COLORS :
                      Parsed(TeacherMessage(id, c)) = [ok |-> TRUE, table |-> id, color |-> c]
       /\ (spc = "api_update_table" /\ CommandWrite(FALSE)) =>
             /\ written' = smessage
             /\ handle.writing /\ _connection_lock = "send_teacher_command"]_vars

\* "T,1,2" has been written for a request that made table 1 red
C17_Witness ==
    /\ written = <<"T", ",", "1", ",", "2", "\n">>
    /\ spc = "api_update_table"
    /\ supdate.type = "table_update"
    /\ supdate.table = [table |-> 1, color |-> "red"]

\* C18: the reset command is the command of table -1 and green: the same
\* bytes, written under the same condition, and the same error otherwise.
C18_ResetIsTeacherCommand ==
    [][/\ ResetMessage = TeacherMessage(-1, "green")
       /\ ApiReset => smessage' = TeacherMessage(-1, "green")
       /\ ResetAllCommand =>
             IF SendRaises
             THEN ret' = LinkUnavailable /\ ~handle'.writing /\ written' = <<>>
             ELSE handle'.writing /\ spc' = "api_reset"
       /\ (spc = "api_reset" /\ CommandWrite(FALSE)) =>
             written' = TeacherMessage(-1, "green")]_vars

\* the reset command has been written
C18_Witness ==
    /\ written = <<"T", ",", "-", "1", ",", "0", "\n">>
    /\ spc = "api_reset"
    /\ supdate.type = "snapshot"

\* C19: no write of a command runs on the port while a close of the port is
\* running.
C19_WriteCloseExclusive == ~(handle.writing /\ handle.closing)

\* C20: once set_port has returned, serial_status reports no connected port
\* as long as the worker has not opened a port after the call of set_port.
C20_StatusNoneAfterSetPort ==
    (call = "serial_status" /\ handle.stale) => ret.connected_port = NoPort

\* ======================================================================
\* Payloads of the store
\* ======================================================================

\* the ids whose color in the store is c
TablesOfColor(c) == {k \in DictKeySet(_colors) : DictGet(_colors, k) = c}

\* C29: the counts of a payload are the numbers of entities of each color
\* in the store that the same call left; every color is green, orange or
\* red; and the three counts add up to the number of entities.
C29_CountsMatchStore ==
    ret.type \in Payloads =>
       /\ \A c \in VALID_COLORS : ret.counts[c] = Cardinality(TablesOfColor(c))
       /\ \A k \in DictKeySet(_colors) : DictGet(_colors, k) \in VALID_COLORS
       /\ ret.counts.green + ret.counts.orange + ret.counts.red
             = Cardinality(DictKeySet(_colors))

\* an update has returned counts of one red, one orange and no green table
C29_Witness ==
    /\ call = "update_table"
    /\ ret.type = "table_update"
    /\ ret.counts = [green |-> 0, orange |-> 1, red |-> 1]
    /\ Cardinality(TablesOfColor("red")) = 1

\* C21: once set_port has returned with a port configured, a connection
\* the receiver records is a connection on that port: the worker does not
\* connect, or stay connected, through a port it resolved before the call.
C21_ConnectedOnConfiguredPort ==
    (cpc = "idle" /\ _configured_port # NoPort /\ _connection) =>
        _active_port = _configured_port

\* C27: a request that changed the store (api_update_table, api_reset)
\* ends with the broadcast of the payload of that change, whether the
\* serial link is connected or not.
C27_MutationIsBroadcast ==
    [][(spc # "idle" /\ spc' = "idle") =>
          /\ sent' = <<supdate>>
          /\ \A ws \in Websockets :
                ListHas(_connections', ws) => inbox'[ws] = Append(inbox[ws], supdate)]_vars

\* C22: once stop is signalled the worker ends, wherever it was, and from
\* then on no connection is held: the port is closed and the receiver
\* records neither a connection nor an active port.
C22_StopEndsWorker ==
    /\ _stop_event ~> (wpc = "done")
    /\ [](wpc = "done" =>
             /\ ~handle.is_open /\ ~handle.closing
             /\ ~_connection /\ _active_port = NoPort)

\* the worker ended after stop found it connected and reading
C22_Witness ==
    /\ wpc = "done"
    /\ _stop_event
    /\ cpc = "stopped"
    /\ handle.port # NoPort
    /\ ~handle.is_open /\ ~_connection /\ _active_port = NoPort

FirstMatch(comports) ==
    LET matching == {i \in 1..Len(comports) :
                        \E token \in Tokens :
                           Contains(Lower(DescriptionOrEmpty(comports[i])), token)}
    IN IF matching = {} THEN 0
       ELSE CHOOSE i \in matching : \A j \in matching : i <= j

\* C24: with a port configured the worker tries that port, whatever
\* comports() lists; with none it tries the first listed port whose
\* description holds "microbit", "mbed" or "cdc" in any case; with no such
\* port it opens nothing and sleeps; and the port it opens is the one it
\* resolved.
C24_PortSelection ==
    [][/\ \A comports \in PortLists :
             (~_stop_event /\ WorkerResolve(Detected(comports))) =>
                 IF _configured_port # NoPort
                 THEN wport' = _configured_port /\ wpc' = "connect"
                 ELSE IF FirstMatch(comports) = 0
                 THEN wport' = NoPort /\ wpc' = "sleep" /\ handle' = handle
                 ELSE /\ wport' = comports[FirstMatch(comports)].device
                      /\ wpc' = "connect"
       /\ WorkerOpen(TRUE) => (handle'.port = wport /\ wport # NoPort)
       /\ (wpc = "sleep" /\ wpc' # wpc) => (wpc' = "loop" /\ handle' = handle)]_vars

\* with no port configured the worker is about to open COM3, the first
\* port of a list whose match is written in capitals
C24_Witness ==
    /\ wpc = "connect"
    /\ _configured_port = NoPort
    /\ wport = "COM3"

\* C26: after connection.write raised SerialException the connection is
\* torn down: the receiver comes to record no connection and no active
\* port, and the worker comes back to the head of its loop.
C26_WriteErrorTearsDown ==
    (ret = [type |-> "SerialException"]) ~>
        (~_connection /\ _active_port = NoPort /\ wpc \in {"loop", "sleep", "done"})

\* the oldest update of `table` that is applied and not yet broadcast
OldestApplied(table) ==
    LET pending == {i \in 1..Len(applied) : applied[i].table.table = table}
    IN IF pending = {} THEN [type |-> "None"]
       ELSE applied[CHOOSE i \in pending : \A j \in pending : i <= j]

\* C25: a broadcast of an update of a table, from the worker's queue or
\* from a request, is the broadcast of the oldest update of that table
\* not yet broadcast: observers get the updates of one table in the order
\* the store took them.
C25_BroadcastInAppliedOrder ==
    [][/\ (scheduled # <<>> /\ RunScheduled) =>
             OldestApplied(Head(scheduled).table.table) = Head(scheduled)
       /\ (supdate.type = "table_update" /\ CommandBroadcast) =>
             OldestApplied(supdate.table.table) = supdate]_vars

\* C30 as stated: a three-field line whose role is neither "T" nor "S"
\* changes nothing in the store and queues and sends no broadcast.
C30_OnlyTAndS ==
    [][(/\ wpc = "read"
        /\ Len(Fields(line')) = 3
        /\ Fields(line')[1] \notin {<<"T">>, <<"S">>}
        /\ ReadLine(line')) =>
          UNCHANGED <<store, scheduled, sent, inbox>>]_vars

\* C30: a line read from the link changes the store or queues a broadcast
\* only if it has three fields and its role is not "RT"; and a three-field
\* line with an integer id and a color index of 0, 1 or 2 is applied and
\* queues one broadcast whenever its role is anything other than "RT",
\* "T" and "S" or not.
C30_OnlyEchoDiscarded ==
    [][/\ (wpc = "read" /\ ReadLine(line') /\
              (_colors' # _colors \/ scheduled' # scheduled)) =>
             /\ Len(Fields(line')) = 3
             /\ Fields(line')[1] # <<"R", "T">>
       /\ (/\ wpc = "read"
           /\ ~Malformed(line')
           /\ Fields(line')[1] # <<"R", "T">>
           /\ ReadLine(line')) =>
             /\ DictGet(_colors', PyInt(Fields(line')[2]).value)
                   = ColorOfIndex(PyInt(Fields(line')[3]).value)
             /\ Len(scheduled') = Len(scheduled) + 1]_vars

\* the worker has just read a repeater's "RS,1, 2" and table 1 is red, or
\* a line of role "X" and table 1 is green
C30_Witness ==
    /\ call = "_read_loop"
    /\ Len(Fields(line)) = 3
    /\ \/ Fields(line)[1] = <<"R", "S">> /\ DictGet(_colors, 1) = "red"
       \/ Fields(line)[1] = <<"X">> /\ DictGet(_colors, 1) = "green"
    /\ ret.type = "table_update" /\ ret.table.table = 1

\* C28: every id the store holds is a positive integer.
C28_IdsPositive == \A k \in DictKeySet(_colors) : k >= 1

\* C31: whenever _connection_lock is free, _connection is None exactly when
\* _active_port is None, and an _active_port that is set is the port the
\* recorded Serial object was opened on.
C31_ConnectionAndPortAgree ==
    _connection_lock = "free" =>
        /\ (~_connection) <=> (_active_port = NoPort)
        /\ _active_port # NoPort => _active_port = handle.port

\* the worker is connected on COM4 after set_port made it reconnect, and
\* no command holds the lock
C31_Witness ==
    /\ _connection_lock = "free"
    /\ _connection
    /\ _active_port = "COM4" /\ handle.port = "COM4" /\ handle.is_open
    /\ wpc = "read"
    /\ cpc = "idle"

Quiescent == scheduled = <<>> /\ spc = "idle"

\* C33: when no update is under way, an observer that is still registered
\* and has received its snapshot shows, for every table of the store, the
\* color the store holds.
C33_ObserverConverges ==
    \A ws \in Websockets :
        (Quiescent /\ wsstate[ws] = "receiving" /\ ListHas(_connections, ws)) =>
            \A k \in DictKeySet(_colors) :
                /\ DictHas(ObserverView(inbox[ws]), k)
                /\ DictGet(ObserverView(inbox[ws]), k) = DictGet(_colors, k)

\* the same for the states in which the command of the last request was
\* written to the device, so that its update was broadcast
ConvergesAfterWrittenCommand ==
    \A ws \in Websockets :
        (/\ Quiescent /\ written # <<>> /\ written = smessage
         /\ wsstate[ws] = "receiving" /\ ListHas(_connections, ws)) =>
            \A k \in DictKeySet(_colors) :
                DictGet(ObserverView(inbox[ws]), k) = DictGet(_colors, k)

\* C34: a websocket is sent its snapshot only after it was registered, and
\* nothing reaches it before; from then on every broadcast the worker
\* queued is delivered to it, in the step that runs the broadcast, unless
\* a send to it fails and takes it out of the list.
C34_RegisteredBeforeSnapshot ==
    /\ [](\A ws \in Websockets :
             wsstate[ws] = "new" => (inbox[ws] = <<>> /\ ~ListHas(_connections, ws)))
    /\ [][\A ws \in Websockets :
             /\ (wsstate[ws] # "receiving" /\ wsstate'[ws] = "receiving") =>
                   /\ wsstate[ws] = "registered"
                   /\ inbox'[ws] = Append(inbox[ws],
                           _snapshot_locked(_start, _end, _colors, _red_started, now))
             /\ (/\ scheduled # <<>> /\ RunScheduled
                 /\ wsstate[ws] \in {"registered", "receiving"}
                 /\ ListHas(_connections', ws)) =>
                   inbox'[ws] = Append(inbox[ws], Head(scheduled))]_vars

\* an observer holds its snapshot, on which table 1 is green, followed by
\* the broadcast of the device's update of table 1 to red
C34_Witness ==
    /\ call = "broadcast"
    /\ wsstate["ws1"] = "receiving"
    /\ Len(inbox["ws1"]) = 2
    /\ inbox["ws1"][1].type = "snapshot"
    /\ inbox["ws1"][1].tables[1] = [table |-> 1, color |-> "green"]
    /\ inbox["ws1"][2].type = "table_update"
    /\ inbox["ws1"][2].table = [table |-> 1, color |-> "red"]
    /\ sent = <<inbox["ws1"][2]>>

\* a run of digits and nothing else
AllDigits(str) == str # <<>> /\ \A i \in 1..Len(str) : IsDigit(str[i])

\* C35: whatever TABLE_RANGE holds, parse_table_range returns a pair with
\* 1 <= start <= end, on which the store is built; it is the pair written
\* in the text when the text is "start-end" with two integers that satisfy
\* this, and (1, 50) when the variable is unset or empty, has no "-", has a
\* part that is no integer, a start below 1 or an end below the start.
C35_RangeParsed ==
    call = "parse_table_range" =>
        LET raw == ret.raw
            range == ret.range
            dashes == {i \in 1..Len(raw.str) : raw.str[i] = "-"}
        IN /\ range[1] >= 1 /\ range[2] >= range[1]
           /\ DictKeySet(_colors) = range[1]..range[2]
           /\ (raw.none \/ raw.str = <<>> \/ dashes = {}) => range = <<1, 50>>
           /\ \A i \in dashes :
                 (\A j \in dashes : i <= j) =>
                    LET first == SubSeq(raw.str, 1, i - 1)
                        second == SubSeq(raw.str, i + 1, Len(raw.str))
                    IN /\ range = IF /\ PyInt(first).ok /\ PyInt(second).ok
                                     /\ 1 <= PyInt(first).value
                                     /\ PyInt(first).value <= PyInt(second).value
                                  THEN <<PyInt(first).value, PyInt(second).value>>
                                  ELSE <<1, 50>>
                       /\ (AllDigits(first) /\ AllDigits(second)) =>
                             range = IF /\ 1 <= NatValue(first)
                                        /\ NatValue(first) <= NatValue(second)
                                     THEN <<NatValue(first), NatValue(second)>>
                                     ELSE <<1, 50>>

\* TABLE_RANGE was " 2 - 3 " and the store holds the tables 2 and 3
C35_Witness ==
    /\ call = "parse_table_range"
    /\ ret.raw = EnvSet(<<" ", "2", " ", "-", " ", "3", " ">>)
    /\ ret.range = <<2, 3>>
    /\ Len(_colors) = 2

\* C36: a repeater sends a received line again only when its role is "T" or
\* "S", as "R" followed by the line; a line whose role starts with "R" is
\* never sent again, so no repeater retransmits more often than original
\* lines were sent
HandlesString(d) == rx[d] # <<>> /\ rx'[d] = Tail(rx[d])

C36_RepeaterLoopPrevention ==
    /\ [][\A d \in Devices :
            LET receivedString == Head(rx[d])
                role == Split(receivedString)[1]
            IN /\ repeats'[d] # repeats[d]
                    => /\ HandlesString(d)
                       /\ repeaterOn[d]
                       /\ role \in {<<"T">>, <<"S">>}
                       /\ repeats'[d] = repeats[d] + 1
                       /\ radio_sent' = << <<"R">> \o receivedString >>
               /\ HandlesString(d) /\ role # <<>> /\ role[1] = "R"
                    => radio_sent' = <<>> /\ repeats'[d] = repeats[d]]_vars
    /\ [](\A d \in Devices : repeats[d] <= originals)

\* once no device sends a line of its own any more, the radio falls silent
RadioFallsSilent == <>[](\A d \in Devices : rx[d] = <<>>)

C36_Witness ==
    /\ \E d \in Devices : repeaterOn[d] /\ repeats[d] = 2
    /\ originals = 2
    /\ \A d \in Devices : rx[d] = <<>>
    /\ radio_sent = <<>>

\* C37: the color index of every device is an index into colorList, whatever
\* buttons were pressed and whatever lines the radio delivered
InColorList(colorIndex) == colorIndex \in 0..(Len(colorList) - 1)

C37_ColorIndexInList == \A d \in Devices : InColorList(currentColorIndex[d])

\* the buttons and the id setup keep an index that is in the list in it;
\* only a received line takes it out
ButtonsKeepIndexInList ==
    [][\A d \in Devices :
         InColorList(currentColorIndex[d]) /\ ~InColorList(currentColorIndex'[d])
            => /\ HandlesString(d)
               /\ Addressed(deviceID[d], Split(Head(rx[d])))
               /\ currentColorIndex'[d] = parse_float(Split(Head(rx[d]))[3])]_vars

\* C38: in beta mode a received MSG,<msg_id>,<transmit_count>,<command> with
\* a message id above the last one is processed: handle_message returns
\* True, the id becomes the last message id, the message is sent again with
\* the count lowered when the count is not 0, and the command is executed
\* once; with an id up to the last one it returns True and executes nothing
DocumentedMessage(msg) ==
    LET parts == Split(msg)
    IN Len(parts) >= 4 /\ parts[1] = MSG /\ IsNumber(parts[2]) /\ IsNumber(parts[3])

C38_MessageProcessed ==
    [][\A d \in Devices :
         HandlesString(d) /\ beta[d] /\ ~transmitter[d] /\ DocumentedMessage(Head(rx[d]))
            => LET msg == Head(rx[d])
                   msg_id == parse_float(Split(msg)[2])
                   transmit_count == parse_float(Split(msg)[3])
                   command == SplitMax(msg, 3)[4]
               IN /\ handled'.msg = msg
                  /\ handled'.returned
                  /\ IF msg_id > last_msg_id[d]
                     THEN /\ handled'.executed = <<command>>
                          /\ command # RESET => last_msg_id'[d] = msg_id
                          /\ transmit_count # 0
                               => \E i \in 1..Len(radio_sent') :
                                      radio_sent'[i] = MSG \o <<",">> \o IntStr(msg_id) \o <<",">>
                                          \o IntStr(transmit_count - 1) \o <<",">> \o command
                     ELSE /\ handled'.executed = <<>>
                          /\ last_msg_id'[d] = last_msg_id[d]]_vars

\* C39: in the desktop application a table has a red start exactly when its
\* tile is red, and only red tables are on the longest-on-red list
C39_RedStartIffRed ==
    /\ \A i \in 1..Len(desktop.table_colors) :
           desktop.red_start_time[i] # None <=> desktop.table_colors[i] = "red"
    /\ \A index \in update_longest_red_list : desktop.table_colors[index + 1] = "red"

\* clicks, serial updates and range updates alone keep the two lists in step
OnlyResetLeavesRedStart ==
    [][C39_RedStartIffRed /\ ~C39_RedStartIffRed'
          => /\ desktop.ser = "open"
             /\ desktop'.wrote = <<"T", ",", "-", "1", ",", "0", "\n">>]_vars

====
